---------------------------- MODULE Spec2Model ----------------------------
(***************************************************************************)
(* Slot allocation and booking engine of the expert-scheduling bot:        *)
(* TimeSlot (models/timeslot.py), Expert (models/expert.py), Schedule      *)
(* (models/schedule.py), the row parser of the persistence layer           *)
(* (services/schedule_parser.py) and the ledger helpers of                 *)
(* ExpertController (controllers/expert_controller.py).                    *)
(*                                                                         *)
(* Python objects are records; a method that mutates its receiver is an    *)
(* operator returning the receiver's new value (and the return value when  *)
(* there is one).  Optional[T] is a sequence of length 0 (None) or 1.      *)
(* Lists are sequences.  Dates are day numbers, start times are indices    *)
(* into TIME_SLOTS.  A TimeSlot has no __eq__: a reference to a slot is    *)
(* its position in `slots`, and two references are equal when they are     *)
(* the same position.                                                      *)
(***************************************************************************)
EXTENDS Integers, Sequences, FiniteSets, TLC

VARIABLES
    slots,      \* the TimeSlot objects, in the order read_all_slots returned them
    experts,    \* the Expert objects, by expert id
    last,       \* the most recent call: [op, slot, args, ret]
    rt,         \* frame of a caller running book(); confirm(); release()
    schedule,   \* the Schedule: its list of slots and its date index
    result,     \* the value the most recent query returned, held by its caller
    session,    \* BotController.session_data, by telegram id
    matcher,    \* ScheduleController.matcher: the SlotMatcher and its snapshot
    run,        \* the activation of distribute_evenly: its locals and position
    user_states \* BotController.user_states: the BotState of a dialog, by telegram id

vars == <<slots, experts, last, rt, schedule, result, session, matcher, run, user_states>>

-----------------------------------------------------------------------------
(* Bounds of the model *)

NumRows == 2        \* rows of the schedule file that SpecSlot reads
NumExperts == 2     \* experts
NumDates == 2       \* calendar dates the ledger calls of SpecLedger draw from
NumTimes == 2       \* entries of TIME_SLOTS in use: the slots of one day
MaxSelected == 1    \* slots a user picks from the keyboard in one session
MaxSlots == 3       \* length of the Schedule's list that SpecCollection builds
MaxPerStatus == 4   \* slots of one status in the file that SpecStats reads
MaxCount == 3       \* sessions asked of the SlotMatcher in one call
MaxWeeks == 2       \* weeks the generated schedule covers and a call looks ahead
MaxTaken == 2       \* slots of the snapshot that another expert holds
MaxSpread == 3      \* weeks_ahead given to distribute_evenly, and weeks of slots it sees
MaxChecked == 3     \* slots in a list handed to check_conflicts
WeeksOfSlots == 6   \* weeks of slots in the schedule that SpecAlternatives searches

ExpertIds == 1..NumExperts
Dates == 1..NumDates
Times == 1..NumTimes

None == <<>>
Some(x) == <<x>>

-----------------------------------------------------------------------------
(* list helpers: Python's `x in l`, l.remove(x) *)

Contains(l, x) == \E i \in DOMAIN l : l[i] = x

FirstIndex(l, x) == CHOOSE i \in DOMAIN l : l[i] = x /\ \A j \in 1..(i - 1) : l[j] # x

\* list.remove(x): drops the first occurrence (the callers test `x in l` first)
ListRemove(l, x) ==
    LET i == FirstIndex(l, x)
    IN  SubSeq(l, 1, i - 1) \o SubSeq(l, i + 1, Len(l))

-----------------------------------------------------------------------------
(* config/constants.py *)

SlotStatus == {"free", "booked", "pending", "confirmed"}

\* a date or time-range string is its format and the value it spells
DateStr(d) == [format |-> "%d.%m.%Y", value |-> d]

TimeRangeStr(t) == [format |-> "%H:%M-%H:%M", value |-> t]

\* TIME_SLOTS, as far as it is in use
TIME_SLOTS == [i \in Times |-> TimeRangeStr(i)]

-----------------------------------------------------------------------------
(* models/timeslot.py *)

TimeSlot(slot_date, start_time, status, expert_id, expert_name) ==
    [slot_date |-> slot_date, start_time |-> start_time, status |-> status,
     expert_id |-> expert_id, expert_name |-> expert_name]

is_free(slot) == slot.status = "free"

is_booked(slot) == slot.status \in {"booked", "confirmed"}

is_pending(slot) == slot.status = "pending"

\* mutants of TimeSlot.book
TimeSlot_book_rebooks_pending(slot, expert_id, expert_name) ==
    IF slot.status \notin {"free", "pending"}
    THEN [slot |-> slot, ret |-> "False"]
    ELSE [slot |-> [slot EXCEPT !.expert_id = Some(expert_id),
                                !.expert_name = Some(expert_name),
                                !.status = "pending"],
          ret |-> "True"]

TimeSlot_book_unguarded(slot, expert_id, expert_name) ==
    [slot |-> [slot EXCEPT !.expert_id = Some(expert_id),
                           !.expert_name = Some(expert_name),
                           !.status = "pending"],
     ret |-> "True"]

TimeSlot_book(slot, expert_id, expert_name) ==
    IF ~is_free(slot)
    THEN [slot |-> slot, ret |-> "False"]
    ELSE [slot |-> [slot EXCEPT !.expert_id = Some(expert_id),
                                !.expert_name = Some(expert_name),
                                !.status = "pending"],
          ret |-> "True"]

\* mutants of TimeSlot.confirm
TimeSlot_confirm_unguarded(slot) ==
    [slot |-> [slot EXCEPT !.status = "confirmed"], ret |-> "True"]

TimeSlot_confirm_accepts_booked(slot) ==
    IF slot.status \notin {"pending", "booked"}
    THEN [slot |-> slot, ret |-> "False"]
    ELSE [slot |-> [slot EXCEPT !.status = "confirmed"], ret |-> "True"]

TimeSlot_confirm(slot) ==
    IF slot.status # "pending"
    THEN [slot |-> slot, ret |-> "False"]
    ELSE [slot |-> [slot EXCEPT !.status = "confirmed"], ret |-> "True"]

\* mutants of TimeSlot.release
TimeSlot_release_keeps_name(slot) ==
    [slot EXCEPT !.status = "free", !.expert_id = None]

TimeSlot_release_keeps_confirmed(slot) ==
    IF slot.status = "confirmed"
    THEN slot
    ELSE [slot EXCEPT !.status = "free", !.expert_id = None, !.expert_name = None]

TimeSlot_release(slot) ==
    [slot EXCEPT !.status = "free", !.expert_id = None, !.expert_name = None]

-----------------------------------------------------------------------------
(* utils/date_utils.py: a date or time-range string is its format and the  *)
(* value it spells                                                         *)

parse_date(date_str) ==
    IF date_str.format = "%d.%m.%Y" THEN Some(date_str.value) ELSE None

parse_time_range(time_range_str) ==
    IF time_range_str.format = "%H:%M-%H:%M" THEN Some(time_range_str.value) ELSE None

-----------------------------------------------------------------------------
(* services/schedule_parser.py: a row is a tuple of cells, a cell is None  *)
(* or a value                                                              *)

\* str.lower() on the status strings in use
Lower(s) ==
    CASE s = "Pending" -> "pending"
      [] s = "FREE" -> "free"
      [] OTHER -> s

\* SlotStatus(value), FREE on ValueError
StatusOf(status_str) ==
    IF Lower(status_str) \in SlotStatus THEN Lower(status_str) ELSE "free"

parse_row_to_slot(row) ==
    IF Len(row) < 3 THEN None
    ELSE
    LET date_str       == row[1]
        time_range_str == row[2]
        status_str     == IF row[3] # None /\ row[3][1] # "" THEN row[3][1] ELSE "free"
        expert_id      == IF Len(row) > 3 /\ row[4] # None /\ row[4][1] # 0
                          THEN Some(row[4][1]) ELSE None
        expert_name    == IF Len(row) > 4 /\ row[5] # None /\ row[5][1] # ""
                          THEN Some(row[5][1]) ELSE None
    IN  IF date_str = None \/ time_range_str = None THEN None
        ELSE
        LET slot_date == parse_date(date_str[1])
        IN  IF slot_date = None THEN None
            ELSE
            LET time_range == parse_time_range(time_range_str[1])
            IN  IF time_range = None THEN None
                ELSE Some(TimeSlot(slot_date[1], time_range[1],
                                   StatusOf(status_str), expert_id, expert_name))

RECURSIVE read_all_slots(_)
read_all_slots(rows) ==
    IF rows = <<>> THEN <<>>
    ELSE parse_row_to_slot(Head(rows)) \o read_all_slots(Tail(rows))

-----------------------------------------------------------------------------
(* models/expert.py *)

NameTable == <<"Anna", "Boris", "Clara", "Dmitri">>

ExpertName(e) == NameTable[e]

Expert(expert_id, name) ==
    [expert_id |-> expert_id, name |-> name, preferred_weekdays |-> <<>>,
     confirmed_slots |-> <<>>, pending_slots |-> <<>>]

Expert_set_preferred_weekdays(expert, weekdays) ==
    [expert EXCEPT !.preferred_weekdays = weekdays]

\* mutant of Expert.add_confirmed_slot
Expert_add_confirmed_slot_appends(expert, slot_date) ==
    [expert EXCEPT
        !.confirmed_slots = Append(@, slot_date),
        !.pending_slots = IF Contains(@, slot_date) THEN ListRemove(@, slot_date) ELSE @]

\* mutant of Expert.add_pending_slot
Expert_add_pending_slot_appends(expert, slot_date) ==
    IF ~Contains(expert.confirmed_slots, slot_date)
    THEN [expert EXCEPT !.pending_slots = Append(@, slot_date)]
    ELSE expert

\* mutant of Expert.add_confirmed_slot
Expert_add_confirmed_slot_keeps_pending(expert, slot_date) ==
    IF ~Contains(expert.confirmed_slots, slot_date)
    THEN [expert EXCEPT !.confirmed_slots = Append(@, slot_date)]
    ELSE expert

Expert_add_confirmed_slot(expert, slot_date) ==
    IF ~Contains(expert.confirmed_slots, slot_date)
    THEN [expert EXCEPT
            !.confirmed_slots = Append(@, slot_date),
            !.pending_slots = IF Contains(@, slot_date) THEN ListRemove(@, slot_date) ELSE @]
    ELSE expert

\* mutant of Expert.add_pending_slot
Expert_add_pending_slot_ignores_confirmed(expert, slot_date) ==
    IF ~Contains(expert.pending_slots, slot_date)
    THEN [expert EXCEPT !.pending_slots = Append(@, slot_date)]
    ELSE expert

Expert_add_pending_slot(expert, slot_date) ==
    IF ~Contains(expert.pending_slots, slot_date)
       /\ ~Contains(expert.confirmed_slots, slot_date)
    THEN [expert EXCEPT !.pending_slots = Append(@, slot_date)]
    ELSE expert

\* mutant of Expert.remove_slot
Expert_remove_slot_keeps_confirmed(expert, slot_date) ==
    [expert EXCEPT
        !.pending_slots = IF Contains(@, slot_date) THEN ListRemove(@, slot_date) ELSE @]

Expert_remove_slot(expert, slot_date) ==
    [expert EXCEPT
        !.confirmed_slots = IF Contains(@, slot_date) THEN ListRemove(@, slot_date) ELSE @,
        !.pending_slots = IF Contains(@, slot_date) THEN ListRemove(@, slot_date) ELSE @]

is_date_booked(expert, check_date) ==
    Contains(expert.confirmed_slots, check_date)
    \/ Contains(expert.pending_slots, check_date)

-----------------------------------------------------------------------------
(* controllers/expert_controller.py: the ledger helpers.  get_expert       *)
(* returns None for a telegram id that is no key of the registry.          *)

get_expert(telegram_id) ==
    IF telegram_id \in DOMAIN experts THEN Some(experts[telegram_id]) ELSE None

\* for slot_date in expert.pending_slots.copy(): expert.add_confirmed_slot(slot_date)
RECURSIVE confirm_each(_, _)
confirm_each(expert, dates) ==
    IF dates = <<>> THEN expert
    ELSE confirm_each(Expert_add_confirmed_slot(expert, Head(dates)), Tail(dates))

confirm_pending_slots(telegram_id) ==
    LET expert == get_expert(telegram_id)
    IN  IF expert = None
        THEN [experts |-> experts, ret |-> "False"]
        ELSE [experts |-> [experts EXCEPT ![telegram_id] =
                              confirm_each(expert[1], expert[1].pending_slots)],
              ret |-> "True"]

clear_pending_slots(telegram_id) ==
    LET expert == get_expert(telegram_id)
    IN  IF expert = None
        THEN [experts |-> experts, ret |-> "False"]
        ELSE [experts |-> [experts EXCEPT ![telegram_id].pending_slots = <<>>],
              ret |-> "True"]

-----------------------------------------------------------------------------
(* models/schedule.py: the paired mutations *)

\* mutant of Schedule.book_slot
Schedule_book_slot_always_adds(slot, expert) ==
    LET b == TimeSlot_book(slot, expert.expert_id, expert.name)
    IN  [slot |-> b.slot,
         expert |-> Expert_add_pending_slot(expert, slot.slot_date),
         ret |-> b.ret]

Schedule_book_slot(slot, expert) ==
    LET b == TimeSlot_book(slot, expert.expert_id, expert.name)
    IN  IF b.ret = "True"
        THEN [slot |-> b.slot,
              expert |-> Expert_add_pending_slot(expert, slot.slot_date),
              ret |-> "True"]
        ELSE [slot |-> b.slot, expert |-> expert, ret |-> "False"]


\* mutant of Schedule.confirm_slot: the ledgers are left as they were
Schedule_confirm_slot_leaves_ledger(slot, expert) ==
    LET c == TimeSlot_confirm(slot)
    IN  [slot |-> c.slot, expert |-> expert, ret |-> c.ret]

Schedule_confirm_slot(slot, expert) ==
    LET c == TimeSlot_confirm(slot)
    IN  IF c.ret = "True"
        THEN [slot |-> c.slot,
              expert |-> Expert_add_confirmed_slot(expert, slot.slot_date),
              ret |-> "True"]
        ELSE [slot |-> c.slot, expert |-> expert, ret |-> "False"]

\* expert is Optional[Expert]
Schedule_release_slot(slot, expert) ==
    [slot |-> TimeSlot_release(slot),
     expert |-> IF expert # None
                THEN Some(Expert_remove_slot(expert[1], slot.slot_date))
                ELSE None]

-----------------------------------------------------------------------------
(* Python dicts and list objects.  A dict is a function on its keys.  A    *)
(* value handed to a caller is the value and what it is a reference to: a  *)
(* list built for the caller, the Schedule's own list of slots, a list of  *)
(* the Schedule's index, or no list at all.                                *)

EmptyDict == [k \in {} |-> <<>>]

\* d.get(k, default)
DictGet(d, k, default) == IF k \in DOMAIN d THEN d[k] ELSE default

\* d[k] = v
DictSet(d, k, v) == [x \in (DOMAIN d) \cup {k} |-> IF x = k THEN v ELSE d[x]]

NewList(l) == [value |-> l, ref |-> [of |-> "new", key |-> 0]]

NotAList(v) == [value |-> v, ref |-> [of |-> "value", key |-> 0]]

NoResult == NotAList(None)

-----------------------------------------------------------------------------
(* config/constants.py: list(Weekday); day 1 of the calendar is a Monday   *)

Weekday == <<"MONDAY", "TUESDAY", "WEDNESDAY", "THURSDAY", "FRIDAY", "SATURDAY", "SUNDAY">>

\* list(Weekday).index(weekday)
WeekdayIndex(weekday) == (CHOOSE i \in DOMAIN Weekday : Weekday[i] = weekday) - 1

\* date.weekday(): Monday is 0
date_weekday(d) == (d - 1) % 7

get_weekday(slot) == date_weekday(slot.slot_date)

-----------------------------------------------------------------------------
(* models/schedule.py: the collection, its date index and the queries.     *)
(* A slot argument is a reference to a TimeSlot of `slots`.                *)

NewSchedule == [slots |-> <<>>, index |-> EmptyDict]

Schedule_add_slot(sch, slot) ==
    LET d == slots[slot].slot_date
    IN  [sch EXCEPT !.slots = Append(@, slot),
                    !.index = DictSet(@, d, Append(DictGet(@, d, <<>>), slot))]

RECURSIVE Schedule_add_slots(_, _)
Schedule_add_slots(sch, new_slots) ==
    IF new_slots = <<>> THEN sch
    ELSE Schedule_add_slots(Schedule_add_slot(sch, Head(new_slots)), Tail(new_slots))

\* mutant of Schedule.remove_slot
Schedule_remove_slot_keeps_index(sch, slot) ==
    IF ~Contains(sch.slots, slot)
    THEN [schedule |-> sch, ret |-> "False"]
    ELSE [schedule |-> [sch EXCEPT !.slots = ListRemove(@, slot)], ret |-> "True"]

Schedule_remove_slot_reports_found(sch, slot) ==
    IF ~Contains(sch.slots, slot)
    THEN [schedule |-> sch, ret |-> "True"]
    ELSE [schedule |->
              [slots |-> ListRemove(sch.slots, slot),
               index |-> DictSet(sch.index, slots[slot].slot_date,
                                 ListRemove(sch.index[slots[slot].slot_date], slot))],
          ret |-> "True"]

\* list.remove raises ValueError when the slot is absent; self._index is a
\* defaultdict, so reading a missing key stores an empty list under it
Schedule_remove_slot(sch, slot) ==
    IF ~Contains(sch.slots, slot)
    THEN [schedule |-> sch, ret |-> "False"]
    ELSE
    LET d     == slots[slot].slot_date
        coll  == ListRemove(sch.slots, slot)
        index == DictSet(sch.index, d, DictGet(sch.index, d, <<>>))
    IN  IF ~Contains(index[d], slot)
        THEN [schedule |-> [slots |-> coll, index |-> index], ret |-> "False"]
        ELSE [schedule |-> [slots |-> coll,
                            index |-> DictSet(index, d, ListRemove(index[d], slot))],
              ret |-> "True"]

Schedule_clear(sch) == [slots |-> <<>>, index |-> EmptyDict]

\* list.sort(key=...): stable, by (slot_date, start_time)
SortKeyLeq(a, b) ==
    \/ slots[a].slot_date < slots[b].slot_date
    \/ /\ slots[a].slot_date = slots[b].slot_date
       /\ slots[a].start_time <= slots[b].start_time

RECURSIVE SortedInsert(_, _)
SortedInsert(sorted, x) ==
    IF sorted = <<>> THEN <<x>>
    ELSE IF SortKeyLeq(Head(sorted), x)
         THEN <<Head(sorted)>> \o SortedInsert(Tail(sorted), x)
         ELSE <<x>> \o sorted

RECURSIVE SortedList(_)
SortedList(l) ==
    IF l = <<>> THEN <<>>
    ELSE SortedInsert(SortedList(SubSeq(l, 1, Len(l) - 1)), l[Len(l)])

Schedule_sort_by_date(sch) == [sch EXCEPT !.slots = SortedList(@)]

\* [slot for slot in l if test(slot)], kept being the slots that pass the test
Filter(l, kept) == SelectSeq(l, LAMBDA s : s \in kept)

\* mutant of Schedule.get_all_slots
get_all_slots_live(sch) == [value |-> sch.slots, ref |-> [of |-> "slots", key |-> 0]]

get_all_slots(sch) == NewList(sch.slots)

get_free_slots(sch) == NewList(Filter(sch.slots, {ts \in DOMAIN slots : is_free(slots[ts])}))

get_booked_slots(sch) == NewList(Filter(sch.slots, {ts \in DOMAIN slots : is_booked(slots[ts])}))

get_pending_slots(sch) == NewList(Filter(sch.slots, {ts \in DOMAIN slots : is_pending(slots[ts])}))

get_slots_by_date(sch, target_date) == NewList(DictGet(sch.index, target_date, <<>>))

RECURSIVE extend_by_dates(_, _, _, _)
extend_by_dates(sch, res, current_date, end_date) ==
    IF current_date <= end_date
    THEN extend_by_dates(sch, res \o DictGet(sch.index, current_date, <<>>),
                         current_date + 1, end_date)
    ELSE res

get_slots_by_date_range(sch, start_date, end_date) ==
    NewList(extend_by_dates(sch, <<>>, start_date, end_date))

get_slots_by_weekday(sch, weekday) ==
    LET weekday_num == WeekdayIndex(weekday)
        OnWeekday(slot) == get_weekday(slot) = weekday_num
    IN  NewList(Filter(sch.slots, {ts \in DOMAIN slots : OnWeekday(slots[ts])}))

get_slots_by_expert(sch, expert_id) ==
    LET OwnedBy(slot) == slot.expert_id = Some(expert_id)
    IN  NewList(Filter(sch.slots, {ts \in DOMAIN slots : OwnedBy(slots[ts])}))

\* the first slot of the date that starts at the time, or None
find_slot(sch, target_date, start_time) ==
    LET slots_for_date == get_slots_by_date(sch, target_date).value
        AtTime(slot) == slot.start_time = start_time
        found == Filter(slots_for_date, {ts \in DOMAIN slots : AtTime(slots[ts])})
    IN  NotAList(IF found = <<>> THEN None ELSE Some(Head(found)))

-----------------------------------------------------------------------------
(* utils/date_utils.py: the dates of a window that fall on given weekdays  *)

generate_dates_for_weeks(start_date, weeks) ==
    [i \in 1..(weeks * 7) |-> start_date + (i - 1)]

filter_by_weekday(dates, weekdays) ==
    LET weekday_nums == [i \in DOMAIN weekdays |-> WeekdayIndex(weekdays[i])]
        Wanted(d) == Contains(weekday_nums, date_weekday(d))
    IN  SelectSeq(dates, Wanted)

get_dates_for_weekdays(start_date, weekdays, weeks) ==
    filter_by_weekday(generate_dates_for_weeks(start_date, weeks), weekdays)

-----------------------------------------------------------------------------
(* services/slot_matcher.py: a SlotMatcher keeps the list it was built     *)
(* from and its own index of that list by date                             *)

RECURSIVE index_slots_by_date(_, _)
index_slots_by_date(self, todo) ==
    IF todo = <<>> THEN self
    ELSE LET slot == Head(todo)
             d == slots[slot].slot_date
         IN  index_slots_by_date(
                 [self EXCEPT !.slots_by_date =
                      DictSet(@, d, Append(DictGet(@, d, <<>>), slot))],
                 Tail(todo))

SlotMatcher(available_slots) ==
    index_slots_by_date([available_slots |-> available_slots,
                         slots_by_date |-> EmptyDict],
                        available_slots)


\* mutant of SlotMatcher._get_free_slots_for_date: the status is not looked at
SlotMatcher_get_free_slots_for_date_any(self, target_date) ==
    DictGet(self.slots_by_date, target_date, <<>>)

\* mutant of SlotMatcher._get_free_slots_for_date
SlotMatcher_get_free_slots_for_date_reversed(self, target_date) ==
    LET free_slots == Filter(DictGet(self.slots_by_date, target_date, <<>>), {ts \in DOMAIN slots : is_free(slots[ts])})
    IN  [i \in DOMAIN free_slots |-> free_slots[Len(free_slots) + 1 - i]]

\* mutant of SlotMatcher._get_free_slots_for_date
SlotMatcher_get_free_slots_for_date_live(self, target_date) ==
    Filter(DictGet(schedule.index, target_date, <<>>), {ts \in DOMAIN slots : is_free(slots[ts])})

SlotMatcher_get_free_slots_for_date(self, target_date) ==
    Filter(DictGet(self.slots_by_date, target_date, <<>>), {ts \in DOMAIN slots : is_free(slots[ts])})

\* l[:n]
Slice(l, n) ==
    IF n >= 0
    THEN SubSeq(l, 1, IF n < Len(l) THEN n ELSE Len(l))
    ELSE SubSeq(l, 1, IF Len(l) + n > 0 THEN Len(l) + n ELSE 0)

RECURSIVE select_loop(_, _, _, _)
select_loop(self, selected, dates, count) ==
    IF dates = <<>> \/ Len(selected) >= count THEN selected
    ELSE LET free_slots == SlotMatcher_get_free_slots_for_date(self, Head(dates))
         IN  select_loop(self,
                         IF free_slots # <<>>
                         THEN Append(selected, Head(free_slots))
                         ELSE selected,
                         Tail(dates), count)

\* mutant of SlotMatcher._select_slots_from_dates
select_slots_from_dates_unbounded(self, dates, count) ==
    select_loop(self, <<>>, dates, Len(dates))

select_slots_from_dates(self, dates, count) ==
    Slice(select_loop(self, <<>>, dates, count), count)

\* mutant of SlotMatcher.find_slots_for_expert
find_slots_for_expert_ignores_ledger(self, expert, sessions_count, weeks_ahead, start_date, today) ==
    IF expert.preferred_weekdays = <<>> THEN <<>>
    ELSE
    LET from_date == IF start_date = None THEN today ELSE start_date[1]
    IN  select_slots_from_dates(self,
            get_dates_for_weekdays(from_date, expert.preferred_weekdays, weeks_ahead),
            sessions_count)

\* start_date is None or a date; today is what get_today() returns
find_slots_for_expert(self, expert, sessions_count, weeks_ahead, start_date, today) ==
    IF expert.preferred_weekdays = <<>> THEN <<>>
    ELSE
    LET from_date == IF start_date = None THEN today ELSE start_date[1]
        suitable_dates == get_dates_for_weekdays(from_date, expert.preferred_weekdays,
                                                 weeks_ahead)
        Available(d) == ~is_date_booked(expert, d)
        available_dates == SelectSeq(suitable_dates, Available)
    IN  select_slots_from_dates(self, available_dates, sessions_count)

\* max(a, b)
Max(a, b) == IF a > b THEN a ELSE b

\* mutant of days_interval
days_interval_of_a_week(weeks_ahead, sessions_count) == 7

\* max(7, (weeks_ahead * 7) // sessions_count), sessions_count not 0
days_interval(weeks_ahead, sessions_count) ==
    Max(7, (weeks_ahead * 7) \div sessions_count)

\* no call of distribute_evenly has been made
NotRunning ==
    [pc |-> "idle", expert |-> 0, sessions_count |-> 0, days_interval |-> 0,
     current_date |-> 0, attempts |-> 0, max_attempts |-> 0, selected_slots |-> <<>>]

\* distribute_evenly up to its while loop; the division raises
\* ZeroDivisionError when sessions_count is 0
distribute_evenly_enter(expert, sessions_count, weeks_ahead, today) ==
    IF expert.preferred_weekdays = <<>>
    THEN [NotRunning EXCEPT !.pc = "returned", !.expert = expert.expert_id,
                            !.sessions_count = sessions_count]
    ELSE IF sessions_count = 0
    THEN [NotRunning EXCEPT !.pc = "raised", !.expert = expert.expert_id,
                            !.sessions_count = sessions_count]
    ELSE [pc |-> "loop", expert |-> expert.expert_id, sessions_count |-> sessions_count,
          days_interval |-> days_interval(weeks_ahead, sessions_count),
          current_date |-> today, attempts |-> 0, max_attempts |-> weeks_ahead * 7,
          selected_slots |-> <<>>]

\* mutant of the condition of the while loop
loop_continues_once_more(frame) ==
    /\ Len(frame.selected_slots) < frame.sessions_count
    /\ frame.attempts <= frame.max_attempts

\* the condition of the while loop
loop_continues(frame) ==
    /\ Len(frame.selected_slots) < frame.sessions_count
    /\ frame.attempts < frame.max_attempts


\* mutant of the pass through the loop: a selection leaves the cursor on its date
distribute_evenly_iteration_stays(self, expert, frame) ==
    LET weekday == Weekday[date_weekday(frame.current_date) + 1]
        free_slots == SlotMatcher_get_free_slots_for_date(self, frame.current_date)
    IN  IF /\ Contains(expert.preferred_weekdays, weekday)
           /\ ~is_date_booked(expert, frame.current_date)
           /\ free_slots # <<>>
        THEN [frame EXCEPT !.attempts = @ + 1,
                           !.selected_slots = Append(@, Head(free_slots))]
        ELSE [frame EXCEPT !.attempts = @ + 1,
                           !.current_date = @ + 1]

\* one pass through the body of the while loop
distribute_evenly_iteration(self, expert, frame) ==
    LET weekday == Weekday[date_weekday(frame.current_date) + 1]
        free_slots == SlotMatcher_get_free_slots_for_date(self, frame.current_date)
    IN  IF /\ Contains(expert.preferred_weekdays, weekday)
           /\ ~is_date_booked(expert, frame.current_date)
           /\ free_slots # <<>>
        THEN [frame EXCEPT !.attempts = @ + 1,
                           !.selected_slots = Append(@, Head(free_slots)),
                           !.current_date = @ + frame.days_interval]
        ELSE [frame EXCEPT !.attempts = @ + 1,
                           !.current_date = @ + 1]


\* the while loop of distribute_evenly, run until its condition fails
RECURSIVE distribute_evenly_loop(_, _, _)
distribute_evenly_loop(self, expert, frame) ==
    IF loop_continues(frame)
    THEN distribute_evenly_loop(self, expert,
                                distribute_evenly_iteration(self, expert, frame))
    ELSE [frame EXCEPT !.pc = "returned"]

\* a whole call of distribute_evenly: the frame it ends with
distribute_evenly(self, expert, sessions_count, weeks_ahead, today) ==
    LET frame == distribute_evenly_enter(expert, sessions_count, weeks_ahead, today)
    IN  IF frame.pc = "loop" THEN distribute_evenly_loop(self, expert, frame) ELSE frame

\* mutant of the candidate dates of find_alternative_slots
alternative_dates_from_original(original_slot) ==
    get_dates_for_weekdays(original_slot.slot_date,
                           <<Weekday[date_weekday(original_slot.slot_date) + 1]>>, 4)

\* the same weekday in the four weeks after the original slot
alternative_dates(original_slot) ==
    LET original_weekday == Weekday[date_weekday(original_slot.slot_date) + 1]
    IN  get_dates_for_weekdays(original_slot.slot_date + 7, <<original_weekday>>, 4)

\* mutant of the choice among the free slots of a date
pick_first_free(free_slots, original_slot) ==
    IF free_slots # <<>> THEN <<Head(free_slots)>> ELSE <<>>

\* the slot of a date that joins the alternatives, if any
pick_alternative(free_slots, original_slot) ==
    LET same_time_slots ==
            Filter(free_slots,
                   {ts \in DOMAIN slots : slots[ts].start_time = original_slot.start_time})
    IN  IF same_time_slots # <<>> THEN <<Head(same_time_slots)>>
        ELSE IF free_slots # <<>> THEN <<Head(free_slots)>>
        ELSE <<>>

RECURSIVE alternatives_loop(_, _, _, _, _, _)
alternatives_loop(self, alternatives, dates, original_slot, expert, alternatives_count) ==
    IF dates = <<>> \/ Len(alternatives) >= alternatives_count THEN alternatives
    ELSE IF is_date_booked(expert, Head(dates))
    THEN alternatives_loop(self, alternatives, Tail(dates), original_slot, expert,
                           alternatives_count)
    ELSE alternatives_loop(self,
             alternatives
             \o pick_alternative(SlotMatcher_get_free_slots_for_date(self, Head(dates)),
                                 original_slot),
             Tail(dates), original_slot, expert, alternatives_count)

find_alternative_slots(self, original_slot, expert, alternatives_count) ==
    alternatives_loop(self, <<>>, alternative_dates(original_slot), original_slot,
                      expert, alternatives_count)

\* sorted(slots, key=lambda s: s.slot_date): stable
RECURSIVE InsertByDate(_, _)
InsertByDate(sorted, x) ==
    IF sorted = <<>> THEN <<x>>
    ELSE IF slots[Head(sorted)].slot_date <= slots[x].slot_date
         THEN <<Head(sorted)>> \o InsertByDate(Tail(sorted), x)
         ELSE <<x>> \o sorted

RECURSIVE sorted_by_slot_date(_)
sorted_by_slot_date(l) ==
    IF l = <<>> THEN <<>>
    ELSE InsertByDate(sorted_by_slot_date(SubSeq(l, 1, Len(l) - 1)), l[Len(l)])

TimeSlot_format_date(slot) == DateStr(slot.slot_date)

\* the two messages of check_conflicts
SameDateConflict == [text |-> "same date", first |-> None, second |-> None]

TooCloseConflict(a, b) ==
    [text |-> "too close", first |-> Some(TimeSlot_format_date(a)),
     second |-> Some(TimeSlot_format_date(b))]

\* the for loop of check_conflicts, from index i on
RECURSIVE spacing_conflicts(_, _)
spacing_conflicts(sorted_slots, i) ==
    IF i > Len(sorted_slots) - 1 THEN <<>>
    ELSE LET a == slots[sorted_slots[i]]
             b == slots[sorted_slots[i + 1]]
             diff == b.slot_date - a.slot_date
         IN  (IF diff < 2 THEN <<TooCloseConflict(a, b)>> ELSE <<>>)
             \o spacing_conflicts(sorted_slots, i + 1)

\* mutant of SlotMatcher.check_conflicts
check_conflicts_unsorted(self, slots_in) ==
    LET dates == [i \in DOMAIN slots_in |-> slots[slots_in[i]].slot_date]
    IN  (IF Len(dates) # Cardinality({dates[i] : i \in DOMAIN dates})
         THEN <<SameDateConflict>> ELSE <<>>)
        \o spacing_conflicts(slots_in, 1)

check_conflicts(self, slots_in) ==
    LET dates == [i \in DOMAIN slots_in |-> slots[slots_in[i]].slot_date]
    IN  (IF Len(dates) # Cardinality({dates[i] : i \in DOMAIN dates})
         THEN <<SameDateConflict>> ELSE <<>>)
        \o spacing_conflicts(sorted_by_slot_date(slots_in), 1)

-----------------------------------------------------------------------------
(* models/schedule.py: get_statistics.  utilization_percent is kept in     *)
(* hundredths: 3000 is 30.0                                                *)

\* mutant of round2
truncate2(num, den) == (100 * num) \div den

\* round(num / den, 2): to the nearest hundredth, a tie to the even one
round2(num, den) ==
    LET q == (100 * num) \div den
        r == (100 * num) % den
    IN  IF 2 * r < den THEN q
        ELSE IF 2 * r > den THEN q + 1
        ELSE IF q % 2 = 0 THEN q ELSE q + 1

get_statistics(sch) ==
    LET total   == Len(sch.slots)
        free    == Len(get_free_slots(sch).value)
        booked  == Len(get_booked_slots(sch).value)
        pending == Len(get_pending_slots(sch).value)
    IN  [total |-> total,
         free |-> free,
         booked |-> booked,
         pending |-> pending,
         confirmed |-> booked - pending,
         utilization_percent |-> IF total > 0 THEN round2(booked * 100, total) ELSE 0]

-----------------------------------------------------------------------------
(* controllers/bot_controller.py and services/telegram_service.py: picking *)
(* a slot from the keyboard.  A time_slot is an index into TIME_SLOTS.     *)

\* for each entry of TIME_SLOTS, the first free slot of the date that starts then
get_free_slots_for_date(user_id, selected_date) ==
    LET all_free_slots == get_free_slots(schedule).value
        OnDate(slot) == slot.slot_date = selected_date
        slots_on_date == Filter(all_free_slots, {ts \in DOMAIN slots : OnDate(slots[ts])})
        StartsAt(time_slot) ==
            LET AtTime(slot) == slot.start_time = time_slot
            IN  Filter(slots_on_date, {ts \in DOMAIN slots : AtTime(slots[ts])})
        Offered(time_slot) == StartsAt(time_slot) # <<>>
    IN  [i \in DOMAIN SelectSeq([k \in DOMAIN TIME_SLOTS |-> k], Offered) |->
            LET time_slot == SelectSeq([k \in DOMAIN TIME_SLOTS |-> k], Offered)[i]
            IN  [time_slot |-> time_slot, slot |-> Head(StartsAt(time_slot))]]

\* list.append on session['selected_slots']; after finalize_schedule the
\* entry 'draft_slots' is that same list object and shows the new slot too
AppendSelected(session_data, slot) ==
    LET selected == Append(DictGet(session_data, "selected_slots", <<>>), slot)
        appended == DictSet(session_data, "selected_slots", selected)
    IN  IF "draft_slots" \in DOMAIN session_data
        THEN DictSet(appended, "draft_slots", selected)
        ELSE appended

\* the slot goes into the session, then expert.name is read: AttributeError
\* when the user is no expert.  The result of slot.book is not looked at.
add_selected_slot(user_id, slot) ==
    LET session_data == DictGet(session, user_id, EmptyDict)
        stored == DictSet(session, user_id, AppendSelected(session_data, slot))
        expert == get_expert(user_id)
    IN  IF expert = None
        THEN [session |-> stored, slot |-> slots[slot], ret |-> "raised"]
        ELSE [session |-> stored,
              slot |-> TimeSlot_book(slots[slot], user_id, expert[1].name).slot,
              ret |-> "added"]

-----------------------------------------------------------------------------
(* services/validator.py.  A text is the list of its parts, as upper() or  *)
(* lower(), replace(",", " ") and split() leave them; Latin letters stand  *)
(* for the Cyrillic ones                                                   *)

WEEKDAYS_SHORT ==
    ("PN" :> "MONDAY") @@ ("VT" :> "TUESDAY") @@ ("SR" :> "WEDNESDAY")
    @@ ("CHT" :> "THURSDAY") @@ ("PT" :> "FRIDAY") @@ ("SB" :> "SATURDAY")
    @@ ("VS" :> "SUNDAY")

\* weekday.value.upper() for weekday in Weekday
WeekdayValueUpper ==
    <<"PONEDELNIK", "VTORNIK", "SREDA", "CHETVERG", "PYATNITSA", "SUBBOTA",
      "VOSKRESENE">>

\* list(dict.fromkeys(l)): the first occurrence of each element
RECURSIVE FromKeys(_)
FromKeys(l) ==
    IF l = <<>> THEN <<>>
    ELSE LET rest == FromKeys(SubSeq(l, 1, Len(l) - 1))
         IN  IF Contains(rest, l[Len(l)]) THEN rest ELSE Append(rest, l[Len(l)])

\* the for loop of validate_weekdays: None when a part of more than one
\* character is no weekday; a single unknown character is passed over
RECURSIVE weekdays_of_parts(_, _)
weekdays_of_parts(parts, weekdays) ==
    IF parts = <<>> THEN Some(weekdays)
    ELSE LET part == Head(parts)
         IN  IF part \in DOMAIN WEEKDAYS_SHORT
             THEN weekdays_of_parts(Tail(parts), Append(weekdays, WEEKDAYS_SHORT[part]))
             ELSE IF \E i \in DOMAIN Weekday : WeekdayValueUpper[i] = part
             THEN weekdays_of_parts(Tail(parts),
                      Append(weekdays,
                             Weekday[CHOOSE i \in DOMAIN Weekday :
                                         WeekdayValueUpper[i] = part]))
             ELSE IF Len(part) > 1 THEN None
             ELSE weekdays_of_parts(Tail(parts), weekdays)

validate_weekdays(text) ==
    IF text = <<>>
    THEN [valid |-> FALSE, weekdays |-> <<>>, error |-> "no weekday given"]
    ELSE LET found == weekdays_of_parts(text, <<>>)
         IN  IF found = None
             THEN [valid |-> FALSE, weekdays |-> <<>>, error |-> "unknown weekday"]
             ELSE IF found[1] = <<>>
             THEN [valid |-> FALSE, weekdays |-> <<>>, error |-> "no weekday recognised"]
             ELSE [valid |-> TRUE, weekdays |-> FromKeys(found[1]), error |-> ""]

\* the text is already stripped and in lower case
validate_yes_no(text) ==
    IF text = "" THEN [valid |-> FALSE, answer |-> None]
    ELSE IF text \in {"da", "yes", "d", "y", "ok", "podtverzhdayu", "soglasen"}
    THEN [valid |-> TRUE, answer |-> Some(TRUE)]
    ELSE IF text \in {"net", "no", "n", "otmena", "ne soglasen"}
    THEN [valid |-> TRUE, answer |-> Some(FALSE)]
    ELSE [valid |-> FALSE, answer |-> None]

\* the name is already stripped
validate_name(name) == Len(name) >= 2 /\ Len(name) <= 100

\* sorted(list(set(numbers)))
RECURSIVE SortedNumbers(_)
SortedNumbers(numbers) ==
    IF numbers = {} THEN <<>>
    ELSE LET least == CHOOSE n \in numbers : \A m \in numbers : n <= m
         IN  <<least>> \o SortedNumbers(numbers \ {least})

\* a part is Some(n) when int(part) is n and None when int(part) raises
\* ValueError
validate_slot_numbers(text, max_slots) ==
    IF text = <<>> THEN [valid |-> FALSE, numbers |-> <<>>]
    ELSE IF \E i \in DOMAIN text :
                text[i] = None \/ text[i][1] < 1 \/ text[i][1] > max_slots
    THEN [valid |-> FALSE, numbers |-> <<>>]
    ELSE [valid |-> TRUE,
          numbers |-> SortedNumbers({text[i][1] : i \in DOMAIN text})]

-----------------------------------------------------------------------------
(* controllers/expert_controller.py: the registry is keyed by telegram id; *)
(* _next_expert_id starts at 1 and grows by one with every expert created, *)
(* and no expert is ever deleted by the bot                                *)

next_expert_id == Cardinality(DOMAIN experts) + 1

\* f"Эксперт {self._next_expert_id}"
DefaultNameTable ==
    <<"Expert 1", "Expert 2", "Expert 3", "Expert 4", "Expert 5", "Expert 6">>

\* name is None or Some(name); the registry after the call
get_or_create_expert(telegram_id, name) ==
    IF telegram_id \in DOMAIN experts THEN experts
    ELSE DictSet(experts, telegram_id,
                 Expert(next_expert_id,
                        IF name # None THEN name[1]
                        ELSE DefaultNameTable[next_expert_id]))

update_expert_name(telegram_id, name) ==
    IF ~validate_name(name) THEN [experts |-> experts, ret |-> "False"]
    ELSE [experts |-> [get_or_create_expert(telegram_id, Some(name))
                          EXCEPT ![telegram_id].name = name],
          ret |-> "True"]


\* mutant of set_expert_preferences: the expert is looked up or created
\* before the text is validated
set_expert_preferences_creates_first(telegram_id, weekdays_text) ==
    LET v == validate_weekdays(weekdays_text)
        registry == get_or_create_expert(telegram_id, None)
    IN  IF ~v.valid
        THEN [experts |-> registry, success |-> FALSE, error |-> v.error,
              weekdays |-> <<>>]
        ELSE [experts |-> [registry EXCEPT ![telegram_id] =
                              Expert_set_preferred_weekdays(@, v.weekdays)],
              success |-> TRUE, error |-> "", weekdays |-> v.weekdays]

set_expert_preferences(telegram_id, weekdays_text) ==
    LET v == validate_weekdays(weekdays_text)
    IN  IF ~v.valid
        THEN [experts |-> experts, success |-> FALSE, error |-> v.error,
              weekdays |-> <<>>]
        ELSE [experts |-> [get_or_create_expert(telegram_id, None)
                              EXCEPT ![telegram_id] =
                                  Expert_set_preferred_weekdays(@, v.weekdays)],
              success |-> TRUE, error |-> "", weekdays |-> v.weekdays]

-----------------------------------------------------------------------------
(* controllers/schedule_controller.py *)

\* the for loop of confirm_slots_for_expert over the slot objects heap
RECURSIVE confirm_slots_loop(_, _, _, _)
confirm_slots_loop(heap, expert, todo, confirmed_count) ==
    IF todo = <<>>
    THEN [slots |-> heap, expert |-> expert, confirmed_count |-> confirmed_count]
    ELSE LET r == Schedule_confirm_slot(heap[Head(todo)], expert)
         IN  confirm_slots_loop([heap EXCEPT ![Head(todo)] = r.slot], r.expert,
                                Tail(todo),
                                IF r.ret = "True" THEN confirmed_count + 1
                                ELSE confirmed_count)

confirm_slots_for_expert(slots_in, expert) ==
    LET r == confirm_slots_loop(slots, expert, slots_in, 0)
    IN  [slots |-> r.slots, expert |-> r.expert,
         ret |-> IF r.confirmed_count = Len(slots_in) THEN "True" ELSE "False"]

find_alternatives(original_slot, expert, count) ==
    IF matcher = None THEN <<>>
    ELSE find_alternative_slots(matcher[1], original_slot, expert, count)

\* written and saved are what parser.write_slots and parser.save return
save_schedule(written, saved) ==
    IF ~written THEN "False"
    ELSE IF ~saved THEN "False"
    ELSE "True"

-----------------------------------------------------------------------------
(* controllers/bot_controller.py: the dialog *)

\* del d[k] when k is in d
DictDel(d, k) == [x \in (DOMAIN d) \ {k} |-> d[x]]

get_state(user_id) == DictGet(user_states, user_id, "start")

\* session.get('draft_slots', [])
DraftSlots(user_id) ==
    DictGet(DictGet(session, user_id, EmptyDict), "draft_slots", <<>>)

\* the session dict of the user after _get_session_data
get_session_data(user_id) ==
    DictSet(session, user_id, DictGet(session, user_id, EmptyDict))

\* mutant of _confirm_and_save_schedule: the dialog is completed whatever
\* save_schedule returns
confirm_and_save_schedule_ignores_save(user_id, slots_in, schedule_saved, experts_saved) ==
    LET c == confirm_slots_for_expert(slots_in, experts[user_id])
    IN  [slots |-> c.slots,
         experts |-> [experts EXCEPT ![user_id] = c.expert],
         user_states |-> DictSet(user_states, user_id, "completed"),
         calls |-> <<"save_schedule", "save_experts">>,
         ret |-> "SUCCESS"]

\* mutant of _confirm_and_save_schedule: a failed save undoes the confirm
confirm_and_save_schedule_rolls_back(user_id, slots_in, schedule_saved, experts_saved) ==
    LET c == confirm_slots_for_expert(slots_in, experts[user_id])
    IN  IF schedule_saved # "True"
        THEN [slots |-> slots, experts |-> experts, user_states |-> user_states,
              calls |-> <<"save_schedule">>, ret |-> "ERROR_GENERAL"]
        ELSE [slots |-> c.slots,
              experts |-> [experts EXCEPT ![user_id] = c.expert],
              user_states |-> DictSet(user_states, user_id, "completed"),
              calls |-> <<"save_schedule", "save_experts">>,
              ret |-> "SUCCESS"]

\* schedule_saved and experts_saved are what save_schedule and save_experts
\* return; calls lists the saves the handler asked for
confirm_and_save_schedule(user_id, slots_in, schedule_saved, experts_saved) ==
    LET c == confirm_slots_for_expert(slots_in, experts[user_id])
    IN  IF schedule_saved # "True"
        THEN [slots |-> c.slots,
              experts |-> [experts EXCEPT ![user_id] = c.expert],
              user_states |-> user_states,
              calls |-> <<"save_schedule">>,
              ret |-> "ERROR_GENERAL"]
        ELSE [slots |-> c.slots,
              experts |-> [experts EXCEPT ![user_id] = c.expert],
              user_states |-> DictSet(user_states, user_id, "completed"),
              calls |-> <<"save_schedule", "save_experts">>,
              ret |-> "SUCCESS"]

\* one pass of the for loop of _handle_slot_adjustment
adjust_slot(user_id, draft, slot_num) ==
    LET original_slot == draft[slot_num]
        released == Schedule_release_slot(slots[original_slot], Some(experts[user_id]))
        expert == released.expert[1]
        alternatives == find_alternatives(released.slot, expert, 3)
    IN  IF alternatives # <<>>
        THEN LET new_slot == Head(alternatives)
                 b == Schedule_book_slot(slots[new_slot], expert)
             IN  [slots |-> [slots EXCEPT ![original_slot] = released.slot,
                                          ![new_slot] = b.slot],
                  expert |-> b.expert,
                  draft |-> [draft EXCEPT ![slot_num] = new_slot]]
        ELSE [slots |-> [slots EXCEPT ![original_slot] = released.slot],
              expert |-> expert,
              draft |-> draft]

-----------------------------------------------------------------------------
(* Initial states *)

Call(op, slot, args, ret) == [op |-> op, slot |-> slot, args |-> args, ret |-> ret]

NoCall == Call("init", 0, <<>>, "None")

Idle == [pc |-> "idle", slot |-> 0, booked |-> "None", confirmed |-> "None"]

\* the experts as the constructor leaves them
NewExperts == [e \in ExpertIds |-> Expert(e, ExpertName(e))]

\* rows of a schedule file: any status text, owner cells filled or empty,
\* a date cell that strptime rejects, rows cut short
Rows ==
    {<<Some(dc), Some(TimeRangeStr(1)), sc, ic, nc>> :
        dc \in {DateStr(1)},
        sc \in {None, Some("free"), Some("Pending"), Some("confirmed"),
                Some("booked"), Some("busy")},
        ic \in {None, Some(1)},
        nc \in {None, Some(ExpertName(1))}}
    \cup {<<Some([format |-> "%Y-%m-%d %H:%M:%S", value |-> 1]), Some(TimeRangeStr(1)),
            Some("free"), None, None>>,
          <<None, Some(TimeRangeStr(1)), Some("free"), Some(0), Some("")>>,
          <<Some(DateStr(1)), Some(TimeRangeStr(1))>>,
          <<Some(DateStr(1)), Some(TimeRangeStr(1)), Some("FREE"), Some(0)>>}

\* utils/date_utils.py: the free slots of one day, one per time range
create_timeslot_from_range(slot_date, time_range_str) ==
    LET time_range == parse_time_range(time_range_str)
    IN  IF time_range = None THEN None
        ELSE Some(TimeSlot(slot_date, time_range[1], "free", None, None))

RECURSIVE create_timeslots_for_date(_, _)
create_timeslots_for_date(slot_date, time_ranges) ==
    IF time_ranges = <<>> THEN <<>>
    ELSE create_timeslot_from_range(slot_date, Head(time_ranges))
         \o create_timeslots_for_date(slot_date, Tail(time_ranges))

RECURSIVE create_timeslots_for_dates(_, _)
create_timeslots_for_dates(dates, time_ranges) ==
    IF dates = <<>> THEN <<>>
    ELSE create_timeslots_for_date(Head(dates), time_ranges)
         \o create_timeslots_for_dates(Tail(dates), time_ranges)

\* the dates in chronological order
DateList == [i \in Dates |-> i]

\* the day the schedule of Spec covers
SlotDay == CHOOSE d \in Dates : \A x \in Dates : d <= x

\* references to all the TimeSlot objects, in order
AllSlots == [i \in DOMAIN slots |-> i]

\* a schedule read from any file
InitSlot ==
    /\ \E rows \in [1..NumRows -> Rows] : slots = read_all_slots(rows)
    /\ experts = NewExperts
    /\ last = NoCall
    /\ rt = Idle
    /\ schedule = Schedule_add_slots(NewSchedule, AllSlots)
    /\ result = NoResult
    /\ session = EmptyDict
    /\ matcher = Some(SlotMatcher(get_all_slots(schedule).value))
    /\ run = NotRunning
    /\ user_states = EmptyDict

\* one generated day of free slots
Init ==
    /\ slots = create_timeslots_for_date(SlotDay, TIME_SLOTS)
    /\ experts = NewExperts
    /\ last = NoCall
    /\ rt = Idle
    /\ schedule = Schedule_add_slots(NewSchedule, AllSlots)
    /\ result = NoResult
    /\ session = EmptyDict
    /\ matcher = Some(SlotMatcher(get_all_slots(schedule).value))
    /\ run = NotRunning
    /\ user_states = EmptyDict

\* one generated free slot on each date
InitRelease ==
    /\ slots = create_timeslots_for_dates(DateList, SubSeq(TIME_SLOTS, 1, 1))
    /\ experts = NewExperts
    /\ last = NoCall
    /\ rt = Idle
    /\ schedule = Schedule_add_slots(NewSchedule, AllSlots)
    /\ result = NoResult
    /\ session = EmptyDict
    /\ matcher = Some(SlotMatcher(get_all_slots(schedule).value))
    /\ run = NotRunning
    /\ user_states = EmptyDict

\* the generated slots of every date, and a Schedule that holds none of them yet
InitCollection ==
    /\ slots = create_timeslots_for_dates(DateList, TIME_SLOTS)
    /\ experts = NewExperts
    /\ last = NoCall
    /\ rt = Idle
    /\ schedule = NewSchedule
    /\ result = NoResult
    /\ session = EmptyDict
    /\ matcher = None
    /\ run = NotRunning
    /\ user_states = EmptyDict

\* one generated free slot on each date, and a Schedule that holds none yet
InitQuery ==
    /\ slots = create_timeslots_for_dates(DateList, SubSeq(TIME_SLOTS, 1, 1))
    /\ experts = NewExperts
    /\ last = NoCall
    /\ rt = Idle
    /\ schedule = NewSchedule
    /\ result = NoResult
    /\ session = EmptyDict
    /\ matcher = None
    /\ run = NotRunning
    /\ user_states = EmptyDict

\* a row of the schedule file with the status, owned by the first expert
\* unless it is free
StatusRow(status) ==
    <<Some(DateStr(SlotDay)), Some(TimeRangeStr(1)), Some(status),
      IF status = "free" THEN None ELSE Some(1),
      IF status = "free" THEN None ELSE Some(ExpertName(1))>>

Repeat(x, n) == [i \in 1..n |-> x]

\* a schedule read from a file that holds any number of slots of each status
InitStats ==
    /\ \E nfree \in 0..MaxPerStatus, nbooked \in 0..MaxPerStatus,
          npending \in 0..MaxPerStatus, nconfirmed \in 0..MaxPerStatus :
            slots = read_all_slots(Repeat(StatusRow("free"), nfree)
                                   \o Repeat(StatusRow("booked"), nbooked)
                                   \o Repeat(StatusRow("pending"), npending)
                                   \o Repeat(StatusRow("confirmed"), nconfirmed))
    /\ experts = NewExperts
    /\ last = NoCall
    /\ rt = Idle
    /\ schedule = Schedule_add_slots(NewSchedule, AllSlots)
    /\ result = NoResult
    /\ session = EmptyDict
    /\ matcher = Some(SlotMatcher(get_all_slots(schedule).value))
    /\ run = NotRunning
    /\ user_states = EmptyDict

\* experts with no schedule loaded
InitLedger ==
    /\ slots = <<>>
    /\ experts = NewExperts
    /\ last = NoCall
    /\ rt = Idle
    /\ schedule = Schedule_add_slots(NewSchedule, AllSlots)
    /\ result = NoResult
    /\ session = EmptyDict
    /\ matcher = None
    /\ run = NotRunning
    /\ user_states = EmptyDict

-----------------------------------------------------------------------------
(* Calls on a TimeSlot *)

Book(s, e) ==
    LET b == TimeSlot_book(slots[s], e, ExpertName(e))
    IN  /\ slots' = [slots EXCEPT ![s] = b.slot]
        /\ last' = Call("book", s, <<e, ExpertName(e)>>, b.ret)
        /\ UNCHANGED <<experts, rt, schedule, result, session, matcher, run, user_states>>

Confirm(s) ==
    LET c == TimeSlot_confirm(slots[s])
    IN  /\ slots' = [slots EXCEPT ![s] = c.slot]
        /\ last' = Call("confirm", s, <<>>, c.ret)
        /\ UNCHANGED <<experts, rt, schedule, result, session, matcher, run, user_states>>

Release(s) ==
    /\ slots' = [slots EXCEPT ![s] = TimeSlot_release(slots[s])]
    /\ last' = Call("release", s, <<>>, "None")
    /\ UNCHANGED <<experts, rt, schedule, result, session, matcher, run, user_states>>

NextSlot ==
    \/ \E s \in DOMAIN slots, e \in ExpertIds : Book(s, e)
    \/ \E s \in DOMAIN slots : Confirm(s)
    \/ \E s \in DOMAIN slots : Release(s)

SpecSlot == InitSlot /\ [][NextSlot]_vars

-----------------------------------------------------------------------------
(* A caller running slot.book(id, name); slot.confirm(); slot.release()    *)

RoundTripBook(s, e) ==
    /\ rt.pc \in {"idle", "done"}
    /\ LET b == TimeSlot_book(slots[s], e, ExpertName(e))
       IN  /\ slots' = [slots EXCEPT ![s] = b.slot]
           /\ last' = Call("book", s, <<e, ExpertName(e)>>, b.ret)
           /\ rt' = [pc |-> "booked", slot |-> s, booked |-> b.ret, confirmed |-> "None"]
    /\ UNCHANGED <<experts, schedule, result, session, matcher, run, user_states>>

RoundTripConfirm ==
    /\ rt.pc = "booked"
    /\ LET c == TimeSlot_confirm(slots[rt.slot])
       IN  /\ slots' = [slots EXCEPT ![rt.slot] = c.slot]
           /\ last' = Call("confirm", rt.slot, <<>>, c.ret)
           /\ rt' = [rt EXCEPT !.pc = "confirmed", !.confirmed = c.ret]
    /\ UNCHANGED <<experts, schedule, result, session, matcher, run, user_states>>

RoundTripRelease ==
    /\ rt.pc = "confirmed"
    /\ slots' = [slots EXCEPT ![rt.slot] = TimeSlot_release(slots[rt.slot])]
    /\ last' = Call("release", rt.slot, <<>>, "None")
    /\ rt' = [rt EXCEPT !.pc = "done"]
    /\ UNCHANGED <<experts, schedule, result, session, matcher, run, user_states>>

NextRoundTrip ==
    \/ \E s \in DOMAIN slots, e \in ExpertIds : RoundTripBook(s, e)
    \/ RoundTripConfirm
    \/ RoundTripRelease

SpecRoundTrip == InitSlot /\ [][NextRoundTrip]_vars

-----------------------------------------------------------------------------
(* Calls on an Expert's ledgers, directly and through ExpertController     *)

AddConfirmedSlot(e, d) ==
    /\ experts' = [experts EXCEPT ![e] = Expert_add_confirmed_slot(experts[e], d)]
    /\ last' = Call("add_confirmed_slot", 0, <<e, d>>, "None")
    /\ UNCHANGED <<slots, rt, schedule, result, session, matcher, run, user_states>>

AddPendingSlot(e, d) ==
    /\ experts' = [experts EXCEPT ![e] = Expert_add_pending_slot(experts[e], d)]
    /\ last' = Call("add_pending_slot", 0, <<e, d>>, "None")
    /\ UNCHANGED <<slots, rt, schedule, result, session, matcher, run, user_states>>

RemoveSlot(e, d) ==
    /\ experts' = [experts EXCEPT ![e] = Expert_remove_slot(experts[e], d)]
    /\ last' = Call("remove_slot", 0, <<e, d>>, "None")
    /\ UNCHANGED <<slots, rt, schedule, result, session, matcher, run, user_states>>

ConfirmPendingSlots(telegram_id) ==
    LET r == confirm_pending_slots(telegram_id)
    IN  /\ experts' = r.experts
        /\ last' = Call("confirm_pending_slots", 0, <<telegram_id>>, r.ret)
        /\ UNCHANGED <<slots, rt, schedule, result, session, matcher, run, user_states>>

ClearPendingSlots(telegram_id) ==
    LET r == clear_pending_slots(telegram_id)
    IN  /\ experts' = r.experts
        /\ last' = Call("clear_pending_slots", 0, <<telegram_id>>, r.ret)
        /\ UNCHANGED <<slots, rt, schedule, result, session, matcher, run, user_states>>

\* telegram ids: those of the registry and one that is unknown
TelegramIds == 1..(NumExperts + 1)

NextLedger ==
    \/ \E e \in ExpertIds, d \in Dates : AddConfirmedSlot(e, d)
    \/ \E e \in ExpertIds, d \in Dates : AddPendingSlot(e, d)
    \/ \E e \in ExpertIds, d \in Dates : RemoveSlot(e, d)
    \/ \E telegram_id \in TelegramIds : ConfirmPendingSlots(telegram_id)
    \/ \E telegram_id \in TelegramIds : ClearPendingSlots(telegram_id)

SpecLedger == InitLedger /\ [][NextLedger]_vars

-----------------------------------------------------------------------------
(* Calls on the Schedule *)

BookSlot(s, e) ==
    LET r == Schedule_book_slot(slots[s], experts[e])
    IN  /\ slots' = [slots EXCEPT ![s] = r.slot]
        /\ experts' = [experts EXCEPT ![e] = r.expert]
        /\ last' = Call("book_slot", s, <<e>>, r.ret)
        /\ UNCHANGED <<rt, schedule, result, session, matcher, run, user_states>>

ConfirmSlot(s, e) ==
    LET r == Schedule_confirm_slot(slots[s], experts[e])
    IN  /\ slots' = [slots EXCEPT ![s] = r.slot]
        /\ experts' = [experts EXCEPT ![e] = r.expert]
        /\ last' = Call("confirm_slot", s, <<e>>, r.ret)
        /\ UNCHANGED <<rt, schedule, result, session, matcher, run, user_states>>

\* expert is None or Some(e)
ReleaseSlot(s, expert) ==
    LET r == Schedule_release_slot(slots[s],
                 IF expert # None THEN Some(experts[expert[1]]) ELSE None)
    IN  /\ slots' = [slots EXCEPT ![s] = r.slot]
        /\ experts' = IF expert # None
                      THEN [experts EXCEPT ![expert[1]] = r.expert[1]]
                      ELSE experts
        /\ last' = Call("release_slot", s, expert, "None")
        /\ UNCHANGED <<rt, schedule, result, session, matcher, run, user_states>>

Next ==
    \/ \E s \in DOMAIN slots, e \in ExpertIds : BookSlot(s, e)
    \/ \E s \in DOMAIN slots, e \in ExpertIds : ConfirmSlot(s, e)
    \/ \E s \in DOMAIN slots, expert \in {None} \cup {Some(e) : e \in ExpertIds} :
            ReleaseSlot(s, expert)

Spec == Init /\ [][Next]_vars

-----------------------------------------------------------------------------
(* The same calls on a schedule that covers several dates *)

NextRelease ==
    \/ \E s \in DOMAIN slots, e \in ExpertIds : BookSlot(s, e)
    \/ \E s \in DOMAIN slots, e \in ExpertIds : ConfirmSlot(s, e)
    \/ \E s \in DOMAIN slots, expert \in {None} \cup {Some(e) : e \in ExpertIds} :
            ReleaseSlot(s, expert)

SpecRelease == InitRelease /\ [][NextRelease]_vars

-----------------------------------------------------------------------------
(* Requests of several users, each run to completion: the slot_ callback   *)
(* of the keyboard, and calls of book, confirm and release                 *)

SelectedSlots(user_id) ==
    DictGet(DictGet(session, user_id, EmptyDict), "selected_slots", <<>>)

\* TelegramService.handle_callback, branch callback_data.startswith("slot_")
SlotCallback(user_id, selected_date, time_slot) ==
    LET free_slots == get_free_slots_for_date(user_id, selected_date)
        Chosen(slot_info) == slot_info.time_slot = time_slot
        found == SelectSeq(free_slots, Chosen)
    IN  IF found = <<>>
        THEN /\ last' = Call("slot_callback", 0, <<user_id, selected_date, time_slot>>,
                             "not_found")
             /\ UNCHANGED <<slots, experts, rt, schedule, result, session, matcher, run, user_states>>
        ELSE LET selected_slot == Head(found).slot
                 r == add_selected_slot(user_id, selected_slot)
             IN  /\ Len(SelectedSlots(user_id)) < MaxSelected
                 /\ slots' = [slots EXCEPT ![selected_slot] = r.slot]
                 /\ session' = r.session
                 /\ last' = Call("slot_callback", selected_slot,
                                 <<user_id, selected_date, time_slot>>, r.ret)
                 /\ UNCHANGED <<experts, rt, schedule, result, matcher, run, user_states>>

NextRequests ==
    \/ \E user_id \in ExpertIds, d \in Dates, time_slot \in Times :
            SlotCallback(user_id, d, time_slot)
    \/ \E s \in DOMAIN slots, e \in ExpertIds : Book(s, e)
    \/ \E s \in DOMAIN slots : Confirm(s)
    \/ \E s \in DOMAIN slots : Release(s)

SpecRequests == Init /\ [][NextRequests]_vars

-----------------------------------------------------------------------------
(* Calls that change the Schedule's collection *)

AddSlot(s) ==
    /\ Len(schedule.slots) < MaxSlots
    /\ schedule' = Schedule_add_slot(schedule, s)
    /\ last' = Call("add_slot", s, <<>>, "None")
    /\ UNCHANGED <<slots, experts, rt, result, session, matcher, run, user_states>>

AddSlots(new_slots) ==
    /\ Len(schedule.slots) + Len(new_slots) <= MaxSlots
    /\ schedule' = Schedule_add_slots(schedule, new_slots)
    /\ last' = Call("add_slots", 0, <<>>, "None")
    /\ UNCHANGED <<slots, experts, rt, result, session, matcher, run, user_states>>

ScheduleRemoveSlot(s) ==
    LET r == Schedule_remove_slot(schedule, s)
    IN  /\ schedule' = r.schedule
        /\ last' = Call("remove_slot", s, <<>>, r.ret)
        /\ UNCHANGED <<slots, experts, rt, result, session, matcher, run, user_states>>

Clear ==
    /\ schedule' = Schedule_clear(schedule)
    /\ last' = Call("clear", 0, <<>>, "None")
    /\ UNCHANGED <<slots, experts, rt, result, session, matcher, run, user_states>>

NextCollection ==
    \/ \E s \in DOMAIN slots : AddSlot(s)
    \/ \E a \in DOMAIN slots, b \in DOMAIN slots : AddSlots(<<a, b>>)
    \/ \E s \in DOMAIN slots : ScheduleRemoveSlot(s)
    \/ Clear

SpecCollection == InitCollection /\ [][NextCollection]_vars

-----------------------------------------------------------------------------
(* Queries on the Schedule, and a caller that changes the list it was given *)

Query(op, returned) ==
    /\ result' = returned
    /\ last' = Call(op, 0, <<>>, "None")
    /\ UNCHANGED <<slots, experts, rt, schedule, session, matcher, run, user_states>>

GetAllSlots == Query("get_all_slots", get_all_slots(schedule))

GetFreeSlots == Query("get_free_slots", get_free_slots(schedule))

GetBookedSlots == Query("get_booked_slots", get_booked_slots(schedule))

GetPendingSlots == Query("get_pending_slots", get_pending_slots(schedule))

GetSlotsByDate(d) == Query("get_slots_by_date", get_slots_by_date(schedule, d))

GetSlotsByDateRange(start_date, end_date) ==
    Query("get_slots_by_date_range", get_slots_by_date_range(schedule, start_date, end_date))

GetSlotsByWeekday(i) ==
    Query("get_slots_by_weekday", get_slots_by_weekday(schedule, Weekday[i]))

GetSlotsByExpert(e) == Query("get_slots_by_expert", get_slots_by_expert(schedule, e))

FindSlot(d, start_time) == Query("find_slot", find_slot(schedule, d, start_time))

SortByDate ==
    /\ schedule' = Schedule_sort_by_date(schedule)
    /\ last' = Call("sort_by_date", 0, <<>>, "None")
    /\ UNCHANGED <<slots, experts, rt, result, session, matcher, run, user_states>>

\* the list object a reference stands for changes; a reference to a list of
\* the Schedule changes the Schedule
ListChange(how, l, s) == IF how = "append" THEN Append(l, s) ELSE Tail(l)

ThroughRef(ref, how, s) ==
    CASE ref.of = "slots" -> [schedule EXCEPT !.slots = ListChange(how, @, s)]
      [] ref.of = "index" -> [schedule EXCEPT !.index[ref.key] = ListChange(how, @, s)]
      [] OTHER -> schedule

\* returned.append(slot)
CallerAppend(s) ==
    /\ result.ref.of # "value"
    /\ Len(result.value) < MaxSlots
    /\ result' = [result EXCEPT !.value = ListChange("append", @, s)]
    /\ schedule' = ThroughRef(result.ref, "append", s)
    /\ last' = Call("caller_append", s, <<>>, "None")
    /\ UNCHANGED <<slots, experts, rt, session, matcher, run, user_states>>

\* returned.pop(0)
CallerRemove ==
    /\ result.ref.of # "value"
    /\ result.value # <<>>
    /\ result' = [result EXCEPT !.value = ListChange("pop", @, 0)]
    /\ schedule' = ThroughRef(result.ref, "pop", 0)
    /\ last' = Call("caller_remove", 0, <<>>, "None")
    /\ UNCHANGED <<slots, experts, rt, session, matcher, run, user_states>>

NextQuery ==
    \/ GetAllSlots
    \/ GetFreeSlots
    \/ GetBookedSlots
    \/ GetPendingSlots
    \/ \E d \in Dates : GetSlotsByDate(d)
    \/ \E start_date \in Dates, end_date \in Dates :
            GetSlotsByDateRange(start_date, end_date)
    \/ \E i \in DOMAIN Weekday : GetSlotsByWeekday(i)
    \/ \E e \in ExpertIds : GetSlotsByExpert(e)
    \/ \E d \in Dates, start_time \in Times : FindSlot(d, start_time)
    \/ \E s \in DOMAIN slots : CallerAppend(s)
    \/ CallerRemove
    \/ \E s \in DOMAIN slots : AddSlot(s)
    \/ \E s \in DOMAIN slots : ScheduleRemoveSlot(s)
    \/ Clear
    \/ SortByDate
    \/ \E s \in DOMAIN slots, e \in ExpertIds : BookSlot(s, e)
    \/ \E s \in DOMAIN slots, e \in ExpertIds : ConfirmSlot(s, e)

SpecQuery == InitQuery /\ [][NextQuery]_vars

-----------------------------------------------------------------------------
(* Statistics of a loaded schedule *)

GetStatistics ==
    /\ result' = NotAList(get_statistics(schedule))
    /\ last' = Call("get_statistics", 0, <<>>, "None")
    /\ UNCHANGED <<slots, experts, rt, schedule, session, matcher, run, user_states>>

NextStats == GetStatistics

SpecStats == InitStats /\ [][NextStats]_vars

-----------------------------------------------------------------------------
(* The world of the SlotMatcher: a generated schedule, the matcher built   *)
(* from it, then bookings by another expert, one expert's preferences and  *)
(* ledger, and a slot that joined the Schedule after the matcher was built *)

\* the dates of the generated schedule: the working days in use
SnapshotDates == get_dates_for_weekdays(SlotDay, <<"MONDAY", "WEDNESDAY">>, MaxWeeks)

GeneratedSlots == create_timeslots_for_dates(SnapshotDates, TIME_SLOTS)

\* slot.book(user_id, expert.name) on each of the taken slots
TakenBy(ss, taken, e) ==
    [i \in DOMAIN ss |->
        IF i \in taken THEN TimeSlot_book(ss[i], e, ExpertName(e)).slot ELSE ss[i]]

\* lists handed to set_preferred_weekdays
PreferenceLists ==
    {<<"MONDAY">>, <<"MONDAY", "WEDNESDAY">>, <<"WEDNESDAY", "MONDAY">>,
     <<"TUESDAY", "MONDAY", "MONDAY">>}

\* the dates the first expert's ledger may hold
LedgerDates == {SnapshotDates[i] : i \in DOMAIN SnapshotDates \cap Dates}

InitMatcher ==
    /\ \E taken \in SUBSET (DOMAIN GeneratedSlots), late \in BOOLEAN :
          /\ Cardinality(taken) <= MaxTaken
          /\ slots = TakenBy(GeneratedSlots, taken, NumExperts)
                     \o (IF late THEN <<TimeSlot(SlotDay, 1, "free", None, None)>>
                         ELSE <<>>)
    /\ \E weekdays \in PreferenceLists, d \in LedgerDates,
          ledger \in {"none", "pending", "confirmed"} :
          experts = [NewExperts EXCEPT ![1] =
              LET expert == Expert_set_preferred_weekdays(@, weekdays)
              IN  CASE ledger = "none" -> expert
                    [] ledger = "pending" -> Expert_add_pending_slot(expert, d)
                    [] ledger = "confirmed" -> Expert_add_confirmed_slot(expert, d)]
    /\ last = NoCall
    /\ rt = Idle
    /\ schedule = Schedule_add_slots(NewSchedule, AllSlots)
    /\ result = NoResult
    /\ session = EmptyDict
    /\ matcher = Some(SlotMatcher([i \in DOMAIN GeneratedSlots |-> i]))
    /\ run = NotRunning
    /\ user_states = EmptyDict

FindSlotsForExpert(e, sessions_count, weeks_ahead, start_date, today) ==
    /\ matcher # None
    /\ result' = NewList(find_slots_for_expert(matcher[1], experts[e], sessions_count,
                                               weeks_ahead, start_date, today))
    /\ last' = Call("find_slots_for_expert", 0,
                    <<e, sessions_count, weeks_ahead, start_date, today>>, "None")
    /\ UNCHANGED <<slots, experts, rt, schedule, session, matcher, run, user_states>>

NextMatcher ==
    \E e \in ExpertIds, sessions_count \in 0..MaxCount, weeks_ahead \in 0..MaxWeeks,
       start_date \in {None} \cup {Some(d) : d \in Dates} :
        \E today \in IF start_date = None THEN Dates ELSE {SlotDay} :
            FindSlotsForExpert(e, sessions_count, weeks_ahead, start_date, today)

SpecMatcher == InitMatcher /\ [][NextMatcher]_vars

-----------------------------------------------------------------------------
(* The world of check_conflicts: a schedule of days next to each other and *)
(* days apart, and any short list of its slots handed to the check         *)

InitConflicts ==
    /\ slots = create_timeslots_for_dates(DateList, TIME_SLOTS) \o GeneratedSlots
    /\ experts = NewExperts
    /\ last = NoCall
    /\ rt = Idle
    /\ schedule = Schedule_add_slots(NewSchedule, AllSlots)
    /\ result = NoResult
    /\ session = EmptyDict
    /\ matcher = Some(SlotMatcher(get_all_slots(schedule).value))
    /\ run = NotRunning
    /\ user_states = EmptyDict

\* the lists of at most n slots
SlotLists(n) == UNION {[1..k -> DOMAIN slots] : k \in 0..n}

CheckConflicts(slots_in) ==
    /\ matcher # None
    /\ result' = NewList(check_conflicts(matcher[1], slots_in))
    /\ last' = Call("check_conflicts", 0, <<slots_in>>, "None")
    /\ UNCHANGED <<slots, experts, rt, schedule, session, matcher, run, user_states>>

NextConflicts == \E slots_in \in SlotLists(MaxChecked) : CheckConflicts(slots_in)

SpecConflicts == InitConflicts /\ [][NextConflicts]_vars

-----------------------------------------------------------------------------
(* The world of find_alternative_slots: the same weekday over several      *)
(* weeks, some slots held by another expert, and one expert's ledger       *)

WeeklyDates == get_dates_for_weekdays(SlotDay, <<"MONDAY">>, WeeksOfSlots)

WeeklySlots == create_timeslots_for_dates(WeeklyDates, TIME_SLOTS)

\* the dates the first expert's ledger may hold: the weeks after the first
LaterDates == {WeeklyDates[i + 1] : i \in Dates \cap (1..(Len(WeeklyDates) - 1))}

InitAlternatives ==
    /\ \E taken \in SUBSET (DOMAIN WeeklySlots) :
          /\ Cardinality(taken) <= MaxTaken
          /\ slots = TakenBy(WeeklySlots, taken, NumExperts)
    /\ \E d \in LaterDates, ledger \in {"none", "pending", "confirmed"} :
          experts = [NewExperts EXCEPT ![1] =
              CASE ledger = "none" -> @
                [] ledger = "pending" -> Expert_add_pending_slot(@, d)
                [] ledger = "confirmed" -> Expert_add_confirmed_slot(@, d)]
    /\ last = NoCall
    /\ rt = Idle
    /\ schedule = Schedule_add_slots(NewSchedule, AllSlots)
    /\ result = NoResult
    /\ session = EmptyDict
    /\ matcher = Some(SlotMatcher(get_all_slots(schedule).value))
    /\ run = NotRunning
    /\ user_states = EmptyDict


\* mutant of the call of find_alternative_slots: it holds the first slot it proposes
FindAlternativeSlots_reserves(s, e, alternatives_count) ==
    LET found == find_alternative_slots(matcher[1], slots[s], experts[e],
                                        alternatives_count)
    IN  /\ matcher # None
        /\ result' = NewList(found)
        /\ slots' = IF found = <<>> THEN slots
                    ELSE [slots EXCEPT ![Head(found)] =
                              TimeSlot_book(@, e, ExpertName(e)).slot]
        /\ last' = Call("find_alternative_slots", s, <<e, alternatives_count>>, "None")
        /\ UNCHANGED <<experts, rt, schedule, session, matcher, run, user_states>>

FindAlternativeSlots(s, e, alternatives_count) ==
    /\ matcher # None
    /\ result' = NewList(find_alternative_slots(matcher[1], slots[s], experts[e],
                                                alternatives_count))
    /\ last' = Call("find_alternative_slots", s, <<e, alternatives_count>>, "None")
    /\ UNCHANGED <<slots, experts, rt, schedule, session, matcher, run, user_states>>

NextAlternatives ==
    \E s \in DOMAIN slots, e \in ExpertIds, alternatives_count \in 0..MaxCount :
        FindAlternativeSlots(s, e, alternatives_count)

SpecAlternatives == InitAlternatives /\ [][NextAlternatives]_vars

-----------------------------------------------------------------------------
(* The world of distribute_evenly: Mondays and Thursdays over several      *)
(* weeks, some slots held by another expert, one expert's preferences and  *)
(* ledger, and one call that runs pass by pass through its loop            *)

SpreadDates == get_dates_for_weekdays(SlotDay, <<"MONDAY", "THURSDAY">>, MaxSpread)

SpreadSlots == create_timeslots_for_dates(SpreadDates, SubSeq(TIME_SLOTS, 1, 1))

SpreadPreferences == {<<"MONDAY", "THURSDAY">>, <<"THURSDAY">>}

InitDistribute ==
    /\ \E taken \in SUBSET (DOMAIN SpreadSlots) :
          /\ Cardinality(taken) <= MaxTaken
          /\ slots = TakenBy(SpreadSlots, taken, NumExperts)
    /\ \E weekdays \in SpreadPreferences,
          d \in {SpreadDates[i] : i \in DOMAIN SpreadDates \cap Dates},
          ledger \in {"none", "pending", "confirmed"} :
          experts = [NewExperts EXCEPT ![1] =
              LET expert == Expert_set_preferred_weekdays(@, weekdays)
              IN  CASE ledger = "none" -> expert
                    [] ledger = "pending" -> Expert_add_pending_slot(expert, d)
                    [] ledger = "confirmed" -> Expert_add_confirmed_slot(expert, d)]
    /\ last = NoCall
    /\ rt = Idle
    /\ schedule = Schedule_add_slots(NewSchedule, AllSlots)
    /\ result = NoResult
    /\ session = EmptyDict
    /\ matcher = Some(SlotMatcher(get_all_slots(schedule).value))
    /\ run = NotRunning
    /\ user_states = EmptyDict

\* the call, up to the loop or to an early end
DistributeEvenly(e, sessions_count, weeks_ahead, today) ==
    LET frame == distribute_evenly_enter(experts[e], sessions_count, weeks_ahead, today)
    IN  /\ matcher # None
        /\ run.pc = "idle"
        /\ run' = frame
        /\ result' = IF frame.pc = "returned" THEN NewList(<<>>) ELSE NoResult
        /\ last' = Call("distribute_evenly", 0,
                        <<e, sessions_count, weeks_ahead, today>>, frame.pc)
        /\ UNCHANGED <<slots, experts, rt, schedule, session, matcher, user_states>>

\* one pass of the loop, or the return when its condition fails
DistributeEvenlyStep ==
    /\ run.pc = "loop"
    /\ IF loop_continues(run)
       THEN /\ run' = distribute_evenly_iteration(matcher[1], experts[run.expert], run)
            /\ UNCHANGED <<result, last>>
       ELSE /\ run' = [run EXCEPT !.pc = "returned"]
            /\ result' = NewList(run.selected_slots)
            /\ last' = [last EXCEPT !.ret = "returned"]
    /\ UNCHANGED <<slots, experts, rt, schedule, session, matcher, user_states>>

NextDistribute ==
    \/ \E e \in ExpertIds, sessions_count \in 0..MaxCount, weeks_ahead \in 0..MaxSpread,
          today \in Dates :
           DistributeEvenly(e, sessions_count, weeks_ahead, today)
    \/ DistributeEvenlyStep

SpecDistribute == InitDistribute /\ [][NextDistribute]_vars

\* a call that has started runs on: nothing else is scheduled while it runs
SpecDistributeFair == SpecDistribute /\ WF_vars(DistributeEvenlyStep)

-----------------------------------------------------------------------------
(* The world of the snapshot: the matcher built from the generated day,    *)
(* then slots joining and leaving the Schedule while the matcher is asked  *)

\* the slots the Schedule held when the matcher was built
SlotsAtConstruction == [i \in DOMAIN create_timeslots_for_date(SlotDay, TIME_SLOTS) |-> i]

\* the generated day, and one more TimeSlot of that day that is in no Schedule
InitSnapshot ==
    /\ slots = create_timeslots_for_date(SlotDay, TIME_SLOTS)
               \o <<TimeSlot(SlotDay, 1, "free", None, None)>>
    /\ experts = [NewExperts EXCEPT
                     ![1] = Expert_set_preferred_weekdays(@, <<"MONDAY">>)]
    /\ last = NoCall
    /\ rt = Idle
    /\ schedule = Schedule_add_slots(NewSchedule, SlotsAtConstruction)
    /\ result = NoResult
    /\ session = EmptyDict
    /\ matcher = Some(SlotMatcher(get_all_slots(schedule).value))
    /\ run = NotRunning
    /\ user_states = EmptyDict

NextSnapshot ==
    \/ \E s \in DOMAIN slots : AddSlot(s)
    \/ \E s \in DOMAIN slots : ScheduleRemoveSlot(s)
    \/ \E s \in DOMAIN slots, e \in ExpertIds \ {1} : Book(s, e)
    \/ \E s \in DOMAIN slots : Release(s)
    \/ \E e \in ExpertIds, sessions_count \in 0..MaxCount :
           FindSlotsForExpert(e, sessions_count, MaxWeeks, Some(SlotDay), SlotDay)

SpecSnapshot == InitSnapshot /\ [][NextSnapshot]_vars


-----------------------------------------------------------------------------
(* The world of proposals: the matcher is built while every slot is Free;  *)
(* then the experts book, confirm and release through the Schedule, pick   *)
(* slots from the keyboard, and the matcher is asked between those calls   *)

ProposeDates == get_dates_for_weekdays(SlotDay, <<"MONDAY">>, NumDates)

InitPropose ==
    /\ slots = create_timeslots_for_dates(ProposeDates, SubSeq(TIME_SLOTS, 1, 1))
    /\ experts = [e \in ExpertIds |->
                     Expert_set_preferred_weekdays(NewExperts[e], <<"MONDAY">>)]
    /\ last = NoCall
    /\ rt = Idle
    /\ schedule = Schedule_add_slots(NewSchedule, AllSlots)
    /\ result = NoResult
    /\ session = EmptyDict
    /\ matcher = Some(SlotMatcher(get_all_slots(schedule).value))
    /\ run = NotRunning
    /\ user_states = EmptyDict

\* a call of distribute_evenly from its first line to its return
DistributeEvenlyCall(e, sessions_count, weeks_ahead, today) ==
    LET frame == distribute_evenly(matcher[1], experts[e], sessions_count,
                                   weeks_ahead, today)
    IN  /\ matcher # None
        /\ result' = IF frame.pc = "returned" THEN NewList(frame.selected_slots)
                     ELSE NoResult
        /\ last' = Call("distribute_evenly", 0,
                        <<e, sessions_count, weeks_ahead, today>>, frame.pc)
        /\ UNCHANGED <<slots, experts, rt, schedule, session, matcher, run, user_states>>

NextPropose ==
    \/ \E s \in DOMAIN slots, e \in ExpertIds : BookSlot(s, e)
    \/ \E s \in DOMAIN slots, e \in ExpertIds :
            slots[s].expert_id = Some(e) /\ ConfirmSlot(s, e)
    \/ \E s \in DOMAIN slots, e \in ExpertIds :
            slots[s].expert_id = Some(e) /\ ReleaseSlot(s, Some(e))
    \/ \E user_id \in ExpertIds, i \in DOMAIN ProposeDates, time_slot \in Times :
            SlotCallback(user_id, ProposeDates[i], time_slot)
    \/ \E e \in ExpertIds :
            FindSlotsForExpert(e, NumDates, NumDates, None, SlotDay)
    \/ \E e \in ExpertIds :
            DistributeEvenlyCall(e, NumDates, NumDates, SlotDay)
    \/ \E s \in DOMAIN slots, e \in ExpertIds :
            FindAlternativeSlots(s, e, NumDates)
    \/ \E slots_in \in SlotLists(NumDates) : CheckConflicts(slots_in)

SpecPropose == InitPropose /\ [][NextPropose]_vars


-----------------------------------------------------------------------------
(* A disciplined caller of the Schedule: it books a slot only for an       *)
(* expert who has nothing on the slot's date, and it confirms and releases *)
(* a slot only with the expert who owns it                                 *)

InitDisciplined ==
    /\ slots = create_timeslots_for_dates(DateList, TIME_SLOTS)
    /\ experts = NewExperts
    /\ last = NoCall
    /\ rt = Idle
    /\ schedule = Schedule_add_slots(NewSchedule, AllSlots)
    /\ result = NoResult
    /\ session = EmptyDict
    /\ matcher = Some(SlotMatcher(get_all_slots(schedule).value))
    /\ run = NotRunning
    /\ user_states = EmptyDict

NextDisciplined ==
    \/ \E s \in DOMAIN slots, e \in ExpertIds :
            /\ ~is_date_booked(experts[e], slots[s].slot_date)
            /\ BookSlot(s, e)
    \/ \E s \in DOMAIN slots, e \in ExpertIds :
            /\ slots[s].expert_id = Some(experts[e].expert_id)
            /\ ConfirmSlot(s, e)
    \/ \E s \in DOMAIN slots, e \in ExpertIds :
            /\ slots[s].expert_id = Some(experts[e].expert_id)
            /\ ReleaseSlot(s, Some(e))
    \/ \E s \in DOMAIN slots :
            /\ slots[s].expert_id = None
            /\ ReleaseSlot(s, None)

SpecDisciplined == InitDisciplined /\ [][NextDisciplined]_vars


-----------------------------------------------------------------------------
(* The world of the dialog: users of the bot, each request run to its end  *)
(* before the next one starts.  The schedule is generated, the registry of *)
(* experts is empty, and every save may fail.                              *)

\* telegram ids of the users; none of them is an expert id
UserIds == {NumExperts + e : e \in ExpertIds}

\* the user who takes a draft through finalize, adjustment and confirmation
\* and who mistypes; the other users register, pick slots and cancel
Drafter == CHOOSE user_id \in UserIds : \A other \in UserIds : user_id <= other

\* a telegram id with no dialog and no expert, for which ExpertController is
\* called directly with the texts that fail validation
Stranger == 2 * NumExperts + 1

NameTexts == {ExpertName(1), "A"}

DayTexts == {<<"PN">>, <<"PN", "XX">>, <<"X">>, <<>>}

YesNoTexts == {"yes", "net", "maybe"}

SlotNumberTexts == {<<>>, <<None>>} \cup {<<Some(n)>> : n \in 1..(MaxSelected + 1)}

InitDialog ==
    /\ slots = create_timeslots_for_dates(ProposeDates, SubSeq(TIME_SLOTS, 1, 1))
    /\ experts = EmptyDict
    /\ last = NoCall
    /\ rt = Idle
    /\ schedule = Schedule_add_slots(NewSchedule, AllSlots)
    /\ result = NoResult
    /\ session = EmptyDict
    /\ matcher = Some(SlotMatcher(get_all_slots(schedule).value))
    /\ run = NotRunning
    /\ user_states = EmptyDict

\* _clear_session, then the state of a new dialog
HandleNewSchedule(user_id) ==
    /\ session' = DictDel(session, user_id)
    /\ user_states' = DictSet(DictDel(user_states, user_id), user_id, "asking_name")
    /\ last' = Call("handle_new_schedule", 0, <<user_id>>, "ASK_NAME")
    /\ UNCHANGED <<slots, experts, rt, schedule, result, matcher, run>>

HandleCancel(user_id) ==
    /\ session' = DictDel(session, user_id)
    /\ user_states' = DictDel(user_states, user_id)
    /\ last' = Call("handle_cancel", 0, <<user_id>>, "CANCELLED")
    /\ UNCHANGED <<slots, experts, rt, schedule, result, matcher, run>>

\* handle_message in the state ASKING_NAME
HandleNameInput(user_id, name) ==
    /\ get_state(user_id) = "asking_name"
    /\ IF ~validate_name(name)
       THEN /\ last' = Call("handle_name_input", 0, <<user_id>>, "error_validation")
            /\ UNCHANGED <<experts, user_states>>
       ELSE /\ experts' = update_expert_name(user_id, name).experts
            /\ user_states' = DictSet(user_states, user_id, "asking_days")
            /\ last' = Call("handle_name_input", 0, <<user_id>>, "ASK_DAYS")
    /\ UNCHANGED <<slots, rt, schedule, result, session, matcher, run>>

\* handle_message in the state ASKING_DAYS
HandleDaysInput(user_id, days_text) ==
    LET r == set_expert_preferences(user_id, days_text)
    IN  /\ get_state(user_id) = "asking_days"
        /\ IF ~r.success
           THEN /\ last' = Call("handle_days_input", 0, <<user_id, days_text>>,
                                "error_validation")
                /\ UNCHANGED <<experts, session, user_states>>
           ELSE /\ experts' = r.experts
                /\ session' = DictSet(session, user_id,
                                  DictSet(DictGet(session, user_id, EmptyDict),
                                          "selected_slots", <<>>))
                /\ user_states' = DictSet(user_states, user_id, "selecting_date")
                /\ last' = Call("handle_days_input", 0, <<user_id, days_text>>,
                                "SELECT_DATES")
        /\ UNCHANGED <<slots, rt, schedule, result, matcher, run>>

\* a direct call of ExpertController.set_expert_preferences
SetExpertPreferences(telegram_id, weekdays_text) ==
    LET r == set_expert_preferences(telegram_id, weekdays_text)
    IN  /\ experts' = r.experts
        /\ last' = Call("set_expert_preferences", 0, <<telegram_id, weekdays_text>>,
                        IF r.success THEN "True" ELSE "False")
        /\ UNCHANGED <<slots, rt, schedule, result, session, matcher, run, user_states>>

\* the callback finalize_schedule; expert.get_preferred_weekday_names() raises
\* AttributeError after the state is set when the user is no expert
FinalizeSchedule(user_id) ==
    LET selected == SelectedSlots(user_id)
        session_data == DictGet(session, user_id, EmptyDict)
    IN  IF selected = <<>>
        THEN /\ session' = get_session_data(user_id)
             /\ last' = Call("finalize_schedule", 0, <<user_id>>, "nothing_selected")
             /\ UNCHANGED <<slots, experts, rt, schedule, result, matcher, run,
                            user_states>>
        ELSE /\ session' = DictSet(session, user_id,
                               DictSet(session_data, "draft_slots", selected))
             /\ user_states' = DictSet(user_states, user_id, "confirming_schedule")
             /\ last' = Call("finalize_schedule", 0, <<user_id>>,
                             IF get_expert(user_id) = None THEN "raised"
                             ELSE "ASK_CONFIRM_SCHEDULE")
             /\ UNCHANGED <<slots, experts, rt, schedule, result, matcher, run>>

\* the effects of _confirm_and_save_schedule as one request
ConfirmAndSave(op, user_id, slots_in, schedule_saved, experts_saved) ==
    LET r == confirm_and_save_schedule(user_id, slots_in, schedule_saved, experts_saved)
    IN  /\ slots' = r.slots
        /\ experts' = r.experts
        /\ user_states' = r.user_states
        /\ last' = Call(op, 0, <<user_id, r.calls, schedule_saved>>, r.ret)

\* handle_message in the state CONFIRMING_SCHEDULE
HandleScheduleConfirmation(user_id, message, written, saved, experts_saved) ==
    LET v == validate_yes_no(message)
        draft == DraftSlots(user_id)
    IN  /\ get_state(user_id) = "confirming_schedule"
        /\ UNCHANGED <<rt, schedule, result, matcher, run>>
        /\ IF ~v.valid
           THEN /\ last' = Call("handle_schedule_confirmation", 0, <<user_id, <<>>>>,
                                "error_validation")
                /\ UNCHANGED <<slots, experts, session, user_states>>
           ELSE /\ session' = get_session_data(user_id)
                /\ IF get_expert(user_id) = None \/ draft = <<>>
                   THEN /\ last' = Call("handle_schedule_confirmation", 0,
                                        <<user_id, <<>>>>, "ERROR_GENERAL")
                        /\ UNCHANGED <<slots, experts, user_states>>
                   ELSE IF v.answer = Some(TRUE)
                   THEN ConfirmAndSave("handle_schedule_confirmation", user_id, draft,
                                       save_schedule(written, saved), experts_saved)
                   ELSE /\ user_states' = DictSet(user_states, user_id, "adjusting_slots")
                        /\ last' = Call("handle_schedule_confirmation", 0,
                                        <<user_id, <<>>>>, "ASK_PROBLEMATIC_SLOTS")
                        /\ UNCHANGED <<slots, experts>>

\* the callback confirm_final: it confirms session['selected_slots']
ConfirmFinal(user_id, written, saved, experts_saved) ==
    LET selected == SelectedSlots(user_id)
    IN  /\ session' = get_session_data(user_id)
        /\ UNCHANGED <<rt, schedule, result, matcher, run>>
        /\ IF selected # <<>> /\ get_expert(user_id) # None
           THEN ConfirmAndSave("confirm_final", user_id, selected,
                               save_schedule(written, saved), experts_saved)
           ELSE /\ last' = Call("confirm_final", 0, <<user_id, <<>>>>, "nothing_selected")
                /\ UNCHANGED <<slots, experts, user_states>>

\* handle_message in the state ADJUSTING_SLOTS, for a message of one part
HandleSlotAdjustment(user_id, message) ==
    LET draft == DraftSlots(user_id)
        v == validate_slot_numbers(message, Len(draft))
        session_data == DictGet(session, user_id, EmptyDict)
    IN  /\ get_state(user_id) = "adjusting_slots"
        /\ UNCHANGED <<rt, schedule, result, matcher, run>>
        /\ IF draft = <<>> \/ ~v.valid \/ get_expert(user_id) = None
           THEN /\ session' = get_session_data(user_id)
                /\ last' = Call("handle_slot_adjustment", 0, <<user_id>>,
                                IF draft # <<>> /\ ~v.valid THEN "error_validation"
                                ELSE "ERROR_GENERAL")
                /\ UNCHANGED <<slots, experts, user_states>>
           ELSE LET r == adjust_slot(user_id, draft, v.numbers[1])
                IN  /\ slots' = r.slots
                    /\ experts' = [experts EXCEPT ![user_id] = r.expert]
                    /\ session' =
                          DictSet(session, user_id,
                              DictSet(IF "selected_slots" \in DOMAIN session_data
                                      THEN DictSet(session_data, "selected_slots", r.draft)
                                      ELSE session_data,
                                      "draft_slots", r.draft))
                    /\ user_states' = DictSet(user_states, user_id, "confirming_schedule")
                    /\ last' = Call("handle_slot_adjustment", v.numbers[1], <<user_id>>,
                                    IF r.draft = draft THEN "no_alternative"
                                    ELSE "ASK_CONFIRM_SCHEDULE")

NextDialog ==
    \/ \E user_id \in UserIds : HandleNewSchedule(user_id)
    \/ \E user_id \in UserIds : HandleCancel(user_id)
    \/ \E user_id \in UserIds :
         \E name \in (IF user_id = Drafter THEN NameTexts ELSE {ExpertName(2)}) :
            HandleNameInput(user_id, name)
    \/ \E user_id \in UserIds :
         \E days_text \in (IF user_id = Drafter THEN DayTexts ELSE {<<"PN">>}) :
            HandleDaysInput(user_id, days_text)
    \/ \E weekdays_text \in {text \in DayTexts : ~validate_weekdays(text).valid} :
            SetExpertPreferences(Stranger, weekdays_text)
    \/ \E user_id \in UserIds, i \in DOMAIN ProposeDates :
            SlotCallback(user_id, ProposeDates[i], 1)
    \/ FinalizeSchedule(Drafter)
    \/ \E message \in YesNoTexts, written, saved, experts_saved \in BOOLEAN :
            HandleScheduleConfirmation(Drafter, message, written, saved, experts_saved)
    \/ \E written, saved, experts_saved \in BOOLEAN :
            ConfirmFinal(Drafter, written, saved, experts_saved)
    \/ \E message \in SlotNumberTexts : HandleSlotAdjustment(Drafter, message)

SpecDialog == InitDialog /\ [][NextDialog]_vars

-----------------------------------------------------------------------------
(* Properties *)

Ownerless(slot) == slot.expert_id = None /\ slot.expert_name = None

OwnerSet(slot) == slot.expert_id # None /\ slot.expert_name # None

OtherSlotsUnchanged(s) == \A o \in DOMAIN slots : o # s => slots'[o] = slots[o]

OtherExpertsUnchanged(e) == \A o \in DOMAIN experts : o # e => experts'[o] = experts[o]

\* C1: every TimeSlot, built by the constructor or read from a row of the
\* schedule file and then taken through any book, confirm and release calls, is
\* Free exactly when its owner fields (expert_id and expert_name) are unset.
OwnerSetIffNotFree ==
    \A s \in DOMAIN slots :
        IF slots[s].status = "free" THEN Ownerless(slots[s]) ELSE OwnerSet(slots[s])

\* C2: across book/confirm/release calls the only status changes are
\* Free -> Pending by book, Pending -> Confirmed by confirm and anything -> Free
\* by release; a slot that becomes Confirmed was Pending in the state before.
OnlyLegalStatusChanges ==
    [][\A s \in DOMAIN slots :
          slots'[s].status # slots[s].status =>
              /\ last'.slot = s
              /\ \/ /\ slots[s].status = "free"
                    /\ slots'[s].status = "pending"
                    /\ last'.op = "book"
                 \/ /\ slots[s].status = "pending"
                    /\ slots'[s].status = "confirmed"
                    /\ last'.op = "confirm"
                 \/ /\ slots'[s].status = "free"
                    /\ last'.op = "release"]_vars

\* a confirm call has just taken a slot to Confirmed
ConfirmedFromPending ==
    /\ last.op = "confirm"
    /\ last.ret = "True"
    /\ slots[last.slot].status = "confirmed"

\* C3: book(id, name) returns true only on a Free slot, and then the owner
\* fields are the arguments and the status is Pending; on any other status it
\* returns false and status and owner fields stay as they were.
BookContract ==
    [][last'.op = "book" =>
          LET s == last'.slot
          IN  /\ last'.ret \in {"True", "False"}
              /\ last'.ret = "True" =>
                    /\ slots[s].status = "free"
                    /\ slots'[s] = [slots[s] EXCEPT !.status = "pending",
                                                    !.expert_id = Some(last'.args[1]),
                                                    !.expert_name = Some(last'.args[2])]
              /\ slots[s].status # "free" =>
                    /\ last'.ret = "False"
                    /\ slots'[s] = slots[s]
              /\ OtherSlotsUnchanged(s)]_vars

\* book was refused on a slot another expert holds, which keeps its owner
BookRefused ==
    /\ last.op = "book"
    /\ last.ret = "False"
    /\ slots[last.slot].status = "pending"
    /\ slots[last.slot].expert_id # Some(last.args[1])

\* C4: confirm() returns true only on a Pending slot, and then the status is
\* Confirmed and the owner fields are unchanged; on a Free or Confirmed slot it
\* returns false and changes nothing.
ConfirmContract ==
    [][last'.op = "confirm" =>
          LET s == last'.slot
          IN  /\ last'.ret \in {"True", "False"}
              /\ last'.ret = "True" =>
                    /\ slots[s].status = "pending"
                    /\ slots'[s] = [slots[s] EXCEPT !.status = "confirmed"]
              /\ slots[s].status # "pending" =>
                    /\ last'.ret = "False"
                    /\ slots'[s] = slots[s]
              /\ OtherSlotsUnchanged(s)]_vars

\* confirm was refused on a Free slot
ConfirmRefused ==
    /\ last.op = "confirm"
    /\ last.ret = "False"
    /\ slots[last.slot].status = "free"

\* C5: release() is unconditional and idempotent: from any status the slot is
\* left Free with the owner cleared, and a release of a slot that is already
\* Free and ownerless (a second release) leaves it exactly as it is.
ReleaseContract ==
    [][last'.op = "release" =>
          LET s == last'.slot
          IN  /\ last'.ret = "None"
              /\ slots'[s] = [slots[s] EXCEPT !.status = "free",
                                              !.expert_id = None,
                                              !.expert_name = None]
              /\ (slots[s].status = "free" /\ Ownerless(slots[s])) => slots'[s] = slots[s]
              /\ TimeSlot_release(slots'[s]) = slots'[s]
              /\ OtherSlotsUnchanged(s)]_vars

\* release has just run and the slot is Free and ownerless
Released ==
    /\ last.op = "release"
    /\ slots[last.slot].status = "free"
    /\ Ownerless(slots[last.slot])

\* C6: from any prior state of the slot, book(id, name); confirm(); release()
\* ends with the slot Free and its owner cleared, whether or not book and
\* confirm succeeded.
RoundTripEndsFree ==
    rt.pc = "done" =>
        /\ slots[rt.slot].status = "free"
        /\ Ownerless(slots[rt.slot])

\* the round trip has ended after book and confirm both failed
RoundTripAfterRefusals ==
    /\ rt.pc = "done"
    /\ rt.booked = "False"
    /\ rt.confirmed = "False"

\* C7: after any sequence of add_confirmed_slot, add_pending_slot, remove_slot,
\* confirm_pending_slots and clear_pending_slots from empty ledgers, no date is
\* in both the confirmed and the pending ledger of an expert.
LedgersDisjoint ==
    \A e \in DOMAIN experts, d \in Dates :
        ~(Contains(experts[e].confirmed_slots, d) /\ Contains(experts[e].pending_slots, d))

\* add_pending_slot has just been called for a date that is confirmed
PendingRefusedForConfirmedDate ==
    /\ last.op = "add_pending_slot"
    /\ Contains(experts[last.args[1]].confirmed_slots, last.args[2])

\* C8: after any sequence of Schedule.book_slot, confirm_slot and release_slot
\* calls, a date is in an expert's pending ledger exactly when some slot on it
\* is Pending and owned by that expert, and in the confirmed ledger exactly
\* when some slot on it is Confirmed and owned by that expert.
LedgersMatchSlots ==
    \A e \in DOMAIN experts, d \in Dates :
        /\ Contains(experts[e].pending_slots, d) <=>
              \E s \in DOMAIN slots :
                  /\ slots[s].slot_date = d
                  /\ slots[s].status = "pending"
                  /\ slots[s].expert_id = Some(experts[e].expert_id)
        /\ Contains(experts[e].confirmed_slots, d) <=>
              \E s \in DOMAIN slots :
                  /\ slots[s].slot_date = d
                  /\ slots[s].status = "confirmed"
                  /\ slots[s].expert_id = Some(experts[e].expert_id)

\* C9: Schedule.book_slot(slot, expert) returns the result of
\* slot.book(expert.expert_id, expert.name) and leaves the slot as that call
\* does; the date is added to the expert's pending ledger only when the book
\* succeeded; when it fails neither the slot nor a ledger changes.
BookSlotContract ==
    [][last'.op = "book_slot" =>
          LET s == last'.slot
              e == last'.args[1]
              d == slots[s].slot_date
              b == TimeSlot_book(slots[s], experts[e].expert_id, experts[e].name)
          IN  /\ last'.ret = b.ret
              /\ slots'[s] = b.slot
              /\ experts'[e].confirmed_slots = experts[e].confirmed_slots
              /\ experts'[e].pending_slots # experts[e].pending_slots =>
                    /\ b.ret = "True"
                    /\ experts'[e].pending_slots = Append(experts[e].pending_slots, d)
              /\ b.ret = "True" => is_date_booked(experts'[e], d)
              /\ b.ret = "False" => slots' = slots /\ experts' = experts
              /\ OtherSlotsUnchanged(s)
              /\ OtherExpertsUnchanged(e)]_vars

\* book_slot was refused for an expert whose ledgers do not hold the date
BookSlotRefused ==
    /\ last.op = "book_slot"
    /\ last.ret = "False"
    /\ ~is_date_booked(experts[last.args[1]], slots[last.slot].slot_date)

\* C10: Schedule.confirm_slot(slot, expert) returns the result of
\* slot.confirm(); when it succeeds the slot's date is in the expert's
\* confirmed ledger and not in the pending ledger; when it fails the slot and
\* both ledgers are unchanged.
ConfirmSlotContract ==
    [][last'.op = "confirm_slot" =>
          LET s == last'.slot
              e == last'.args[1]
              d == slots[s].slot_date
              c == TimeSlot_confirm(slots[s])
          IN  /\ last'.ret = c.ret
              /\ slots'[s] = c.slot
              /\ c.ret = "True" =>
                    /\ Contains(experts'[e].confirmed_slots, d)
                    /\ ~Contains(experts'[e].pending_slots, d)
              /\ c.ret = "False" => slots' = slots /\ experts' = experts
              /\ OtherSlotsUnchanged(s)
              /\ OtherExpertsUnchanged(e)]_vars

\* confirm_slot has just moved the date into the confirmed ledger
ConfirmSlotSucceeded ==
    /\ last.op = "confirm_slot"
    /\ last.ret = "True"
    /\ slots[last.slot].status = "confirmed"
    /\ Contains(experts[last.args[1]].confirmed_slots, slots[last.slot].slot_date)

\* C11: Schedule.release_slot(slot, expert) always leaves the slot Free with
\* its owner cleared; when an expert is given, the slot's date is afterwards in
\* neither of that expert's ledgers (is_date_booked is false) and every other
\* date of both ledgers stays where it was; when no expert is given no ledger
\* of any expert changes.
ReleaseSlotContract ==
    [][last'.op = "release_slot" =>
          LET s == last'.slot
              d == slots[s].slot_date
              Without(l) == SelectSeq(l, LAMBDA x : x # d)
          IN  /\ slots'[s].status = "free"
              /\ Ownerless(slots'[s])
              /\ OtherSlotsUnchanged(s)
              /\ last'.args = None => experts' = experts
              /\ last'.args # None =>
                    LET e == last'.args[1]
                    IN  /\ ~is_date_booked(experts'[e], d)
                        /\ experts'[e].confirmed_slots = Without(experts[e].confirmed_slots)
                        /\ experts'[e].pending_slots = Without(experts[e].pending_slots)
                        /\ OtherExpertsUnchanged(e)]_vars

\* release_slot was given an expert and took the slot's date out of a ledger
\* that holds another date as well
ReleasedKeepingOtherDate ==
    /\ last.op = "release_slot"
    /\ last.args # None
    /\ \E d \in Dates :
          /\ d # slots[last.slot].slot_date
          /\ is_date_booked(experts[last.args[1]], d)
    /\ \E e \in ExpertIds : e # last.args[1] /\ experts[e].pending_slots # <<>>

\* C12: with whole requests of several experts interleaved, a slot that is
\* held (not Free) keeps its owner and status through every booking request
\* of anyone, and a booking request aimed at it does not succeed; a booking
\* request succeeds only on a slot that was Free, so between two successful
\* bookings of a slot there is a release.
HeldSlotIsNotRebooked ==
    [][last'.op \in {"book", "slot_callback"} =>
          /\ \A s \in DOMAIN slots :
                slots[s].status # "free" =>
                    /\ slots'[s] = slots[s]
                    /\ last'.slot = s => last'.ret \notin {"True", "added"}
          /\ last'.ret \in {"True", "added"} =>
                /\ slots[last'.slot].status = "free"
                /\ slots'[last'.slot].status = "pending"
                /\ slots'[last'.slot].expert_id = Some(last'.args[1])]_vars

\* a user asked for a slot that another user holds and was told it is not there
HeldSlotNotOffered ==
    /\ last.op = "slot_callback"
    /\ last.ret = "not_found"
    /\ \E s \in DOMAIN slots :
          /\ slots[s].slot_date = last.args[2]
          /\ slots[s].start_time = last.args[3]
          /\ slots[s].status = "pending"
          /\ slots[s].expert_id # Some(last.args[1])
          /\ Contains(SelectedSlots(slots[s].expert_id[1]), s)

\* the number of times x is in the list l
Count(l, x) == Cardinality({i \in DOMAIN l : l[i] = x})

\* C13: after any sequence of add_slot, add_slots, remove_slot and clear calls
\* the date index mirrors the collection: for every date, the index's list of
\* that date holds exactly the collection's slots of that date, each as many
\* times as the collection holds it.
IndexMirrorsCollection ==
    /\ DOMAIN schedule.index \subseteq Dates
    /\ \A d \in Dates, s \in DOMAIN slots :
          Count(DictGet(schedule.index, d, <<>>), s) =
              IF slots[s].slot_date = d THEN Count(schedule.slots, s) ELSE 0

\* one of two references to the same slot has just been removed, and the
\* collection holds another slot of that date too
RemovedOneOfTwo ==
    /\ last.op = "remove_slot"
    /\ last.ret = "True"
    /\ Contains(schedule.slots, last.slot)
    /\ \E o \in DOMAIN slots :
          /\ o # last.slot
          /\ slots[o].slot_date = slots[last.slot].slot_date
          /\ Contains(schedule.slots, o)

\* C14: Schedule.remove_slot on a slot that is not in the collection returns
\* False, raises nothing and leaves collection and index as they are; on a slot
\* that is in the collection it returns True and takes one reference to that
\* slot out of the collection and out of the index.
RemoveSlotContract ==
    [][last'.op = "remove_slot" =>
          LET s == last'.slot
              d == slots[s].slot_date
          IN  /\ slots' = slots
              /\ ~Contains(schedule.slots, s) =>
                    /\ last'.ret = "False"
                    /\ schedule' = schedule
              /\ Contains(schedule.slots, s) =>
                    /\ last'.ret = "True"
                    /\ schedule'.slots = ListRemove(schedule.slots, s)
                    /\ DOMAIN schedule'.index = DOMAIN schedule.index
                    /\ schedule'.index[d] = ListRemove(schedule.index[d], s)
                    /\ \A o \in DOMAIN schedule.index :
                          o # d => schedule'.index[o] = schedule.index[o]]_vars

\* remove_slot was refused for a slot that is not in a collection that holds
\* other slots
RemoveSlotNotFound ==
    /\ last.op = "remove_slot"
    /\ last.ret = "False"
    /\ schedule.slots # <<>>
    /\ ~Contains(schedule.slots, last.slot)

QueryOps ==
    {"get_all_slots", "get_free_slots", "get_booked_slots", "get_pending_slots",
     "get_slots_by_date", "get_slots_by_date_range", "get_slots_by_weekday",
     "get_slots_by_expert", "find_slot"}

PairedMutations ==
    {"book_slot", "confirm_slot", "release_slot", "add_slot", "add_slots", "remove_slot"}

\* queries change nothing and hand out lists of their own; a caller's change
\* to such a list changes nothing of the Schedule; only the calls of Mutations
\* change the collection, the index or a slot
QueryFrame(Mutations) ==
    /\ last'.op \in QueryOps =>
          /\ schedule' = schedule
          /\ slots' = slots
          /\ result'.ref.of \in {"new", "value"}
    /\ last'.op \in {"caller_append", "caller_remove"} =>
          /\ schedule' = schedule
          /\ slots' = slots
    /\ (schedule' # schedule \/ slots' # slots) => last'.op \in Mutations

\* C15 as the spec states it: the queries of Schedule never change the
\* collection, the index or a slot and return copies, and only book_slot,
\* confirm_slot, release_slot, add_slot(s) and remove_slot alter Schedule state.
OnlyPairedMutationsAlter == [][QueryFrame(PairedMutations)]_vars

\* C15, amended: the queries of Schedule never change the collection, the
\* index or a slot, and a list they return is a copy (appending to it or
\* removing from it leaves the Schedule as it is); the calls that alter
\* Schedule state are book_slot, confirm_slot, release_slot, add_slot(s),
\* remove_slot, clear and sort_by_date.
QueriesLeaveScheduleAlone ==
    [][QueryFrame(PairedMutations \cup {"clear", "sort_by_date"})]_vars

\* a caller appended to a list a query returned, which now is longer than the
\* collection it was taken from
CallerGrewReturnedList ==
    /\ last.op = "caller_append"
    /\ schedule.slots # <<>>
    /\ Len(result.value) > Len(schedule.slots)
    /\ \E s \in DOMAIN slots : slots[s].status # "free"

\* the number of slots of the collection whose status is in the set
CountStatus(statuses) ==
    Cardinality({i \in DOMAIN schedule.slots : slots[schedule.slots[i]].status \in statuses})

\* C16: for every content of the Schedule get_statistics reports total = the
\* number of slots, free = the number of Free slots, pending = the number of
\* Pending slots, confirmed = the number of Confirmed slots and booked = the
\* number of slots that are Booked or Confirmed.
StatisticsCountStatuses ==
    last.op = "get_statistics" =>
        /\ result.value.total = Len(schedule.slots)
        /\ result.value.free = CountStatus({"free"})
        /\ result.value.pending = CountStatus({"pending"})
        /\ result.value.confirmed = CountStatus({"confirmed"})
        /\ result.value.booked = CountStatus({"booked", "confirmed"})

\* C17: get_statistics returns on an empty schedule with utilization 0; on a
\* schedule with slots the utilization is booked / total * 100 rounded to two
\* decimals (the hundredth nearest to it; 30.0 for total 10 and booked 3), and
\* it always lies between 0 and 100.
UtilizationIsRoundedShare ==
    last.op = "get_statistics" =>
        LET total  == Len(schedule.slots)
            booked == CountStatus({"booked", "confirmed"})
            u      == result.value.utilization_percent
        IN  /\ total = 0 => u = 0
            /\ total > 0 =>
                  /\ 2 * (u * total - 10000 * booked) <= total
                  /\ 2 * (10000 * booked - u * total) <= total
            /\ (total = 10 /\ booked = 3) => u = 3000
            /\ 0 <= u /\ u <= 10000

\* statistics of ten slots of which three are booked
UtilizationOfThreeInTen ==
    /\ last.op = "get_statistics"
    /\ result.value.total = 10
    /\ result.value.booked = 3
    /\ result.value.utilization_percent = 3000

-----------------------------------------------------------------------------
(* SlotMatcher.find_slots_for_expert: what a call returned *)

Matched == last.op = "find_slots_for_expert"

Returned == result.value

AskedExpert == experts[last.args[1]]

AskedCount == last.args[2]

AskedWeeks == last.args[3]

AskedStart == IF last.args[4] = None THEN last.args[5] ELSE last.args[4][1]

Snapshot == matcher[1].available_slots

Preferred(d) ==
    \E i \in DOMAIN AskedExpert.preferred_weekdays :
        AskedExpert.preferred_weekdays[i] = Weekday[date_weekday(d) + 1]

InWindow(d) == AskedStart <= d /\ d < AskedStart + AskedWeeks * 7

InLedger(d) ==
    (\E i \in DOMAIN AskedExpert.confirmed_slots : AskedExpert.confirmed_slots[i] = d)
    \/ (\E i \in DOMAIN AskedExpert.pending_slots : AskedExpert.pending_slots[i] = d)

FreeInSnapshot(d) ==
    {i \in DOMAIN Snapshot :
        slots[Snapshot[i]].slot_date = d /\ slots[Snapshot[i]].status = "free"}

\* the dates a call may choose from
EligibleDates ==
    {d \in AskedStart..(AskedStart + AskedWeeks * 7 - 1) :
        Preferred(d) /\ ~InLedger(d) /\ FreeInSnapshot(d) # {}}

ReturnedDates == {slots[Returned[i]].slot_date : i \in DOMAIN Returned}

\* C18: the list find_slots_for_expert returns has at most count slots, and
\* the dates of its slots are pairwise distinct and strictly increasing
AtMostCountIncreasingDates ==
    Matched =>
        /\ Len(Returned) <= AskedCount
        /\ \A i, j \in DOMAIN Returned :
              i # j => slots[Returned[i]].slot_date # slots[Returned[j]].slot_date
        /\ \A i, j \in DOMAIN Returned :
              i < j => slots[Returned[i]].slot_date < slots[Returned[j]].slot_date

\* a call that stopped at count while more dates were eligible
StoppedAtCount ==
    /\ Matched
    /\ AskedCount >= 2
    /\ Len(Returned) = AskedCount
    /\ Cardinality(EligibleDates) > AskedCount

\* C19: every slot find_slots_for_expert returns is Free, on a preferred
\* weekday, inside the window that starts at startDate and lasts weeksAhead
\* weeks, and on a date in neither ledger of the expert; an expert with no
\* preferred weekdays gets the empty list
ReturnedSlotsAreEligible ==
    Matched =>
        /\ \A i \in DOMAIN Returned :
              LET slot == slots[Returned[i]]
              IN  /\ slot.status = "free"
                  /\ Preferred(slot.slot_date)
                  /\ InWindow(slot.slot_date)
                  /\ ~InLedger(slot.slot_date)
        /\ (AskedExpert.preferred_weekdays = <<>> => Returned = <<>>)

\* a call that passed over a preferred date with a Free slot because the
\* expert's ledger holds it, and returned a later one
SkippedBookedDate ==
    /\ Matched
    /\ Returned # <<>>
    /\ \E d \in AskedStart..(AskedStart + AskedWeeks * 7 - 1) :
          /\ Preferred(d) /\ InLedger(d) /\ FreeInSnapshot(d) # {}
          /\ d < slots[Returned[1]].slot_date

Min(a, b) == IF a < b THEN a ELSE b

\* C20: find_slots_for_expert returns exactly min(count, k) slots, k being
\* the number of eligible dates with a Free slot in the snapshot; their dates
\* are the earliest such dates, and each slot is the first Free slot of its
\* date in snapshot order
GreedyAndComplete ==
    Matched =>
        /\ Len(Returned) = Min(AskedCount, Cardinality(EligibleDates))
        /\ ReturnedDates \subseteq EligibleDates
        /\ \A d \in EligibleDates \ ReturnedDates : \A r \in ReturnedDates : r < d
        /\ \A i \in DOMAIN Returned :
              LET free == FreeInSnapshot(slots[Returned[i]].slot_date)
              IN  /\ free # {}
                  /\ Returned[i] = Snapshot[CHOOSE k \in free : \A x \in free : k <= x]

\* preferences Monday and Wednesday, a window of two weeks from a Monday,
\* three sessions, every slot of the snapshot Free: three slots come back
FullAvailabilityExample ==
    /\ Matched
    /\ AskedExpert.preferred_weekdays = <<"MONDAY", "WEDNESDAY">>
    /\ date_weekday(AskedStart) = 0
    /\ AskedWeeks = 2
    /\ AskedCount = 3
    /\ \A i \in DOMAIN Snapshot : slots[Snapshot[i]].status = "free"
    /\ Len(Returned) = 3

-----------------------------------------------------------------------------
(* Expert.add_confirmed_slot and add_pending_slot as inserts *)

\* the list without a date, the other dates in their order
Without(l, d) == SelectSeq(l, LAMBDA x : x # d)

\* C28: after add_confirmed_slot(date) the date is in the confirmed ledger
\* exactly once and not in the pending ledger, the other dates of both ledgers
\* and the other experts are as before, and a call for a date that is already
\* confirmed changes nothing
AddConfirmedSlotIsIdempotentInsert ==
    [][last'.op = "add_confirmed_slot" =>
          LET e == last'.args[1]
              d == last'.args[2]
          IN  /\ Count(experts'[e].confirmed_slots, d) = 1
              /\ Count(experts'[e].pending_slots, d) = 0
              /\ Without(experts'[e].confirmed_slots, d) = Without(experts[e].confirmed_slots, d)
              /\ Without(experts'[e].pending_slots, d) = Without(experts[e].pending_slots, d)
              /\ \A x \in DOMAIN experts \ {e} : experts'[x] = experts[x]
              /\ Count(experts[e].confirmed_slots, d) = 1 => experts' = experts
              /\ slots' = slots
    ]_vars

\* add_confirmed_slot has just put a date beside another date that is pending
ConfirmedBesidePending ==
    /\ last.op = "add_confirmed_slot"
    /\ Contains(experts[last.args[1]].confirmed_slots, last.args[2])
    /\ \E x \in Dates \ {last.args[2]} : Contains(experts[last.args[1]].pending_slots, x)

\* C29: add_pending_slot(date) changes nothing when the date is confirmed;
\* otherwise the date is in the pending ledger exactly once afterwards, the
\* confirmed ledger, the other pending dates and the other experts are as
\* before, and a call for a date that is already pending changes nothing
AddPendingSlotIsIdempotentInsert ==
    [][last'.op = "add_pending_slot" =>
          LET e == last'.args[1]
              d == last'.args[2]
          IN  /\ Contains(experts[e].confirmed_slots, d) => experts' = experts
              /\ ~Contains(experts[e].confirmed_slots, d) =>
                    /\ Count(experts'[e].pending_slots, d) = 1
                    /\ Without(experts'[e].pending_slots, d) = Without(experts[e].pending_slots, d)
                    /\ experts'[e].confirmed_slots = experts[e].confirmed_slots
              /\ \A x \in DOMAIN experts \ {e} : experts'[x] = experts[x]
              /\ Count(experts[e].pending_slots, d) = 1 => experts' = experts
              /\ slots' = slots
    ]_vars

\* add_pending_slot has just put a date beside another date that is confirmed
PendingBesideConfirmed ==
    /\ last.op = "add_pending_slot"
    /\ Contains(experts[last.args[1]].pending_slots, last.args[2])
    /\ \E x \in Dates \ {last.args[2]} : Contains(experts[last.args[1]].confirmed_slots, x)

-----------------------------------------------------------------------------
(* The daily cap *)

\* C30: after any sequence of Schedule.book_slot, confirm_slot and
\* release_slot calls no expert owns two slots of the same date that are not
\* Free
AtMostOneSlotPerDatePerExpert ==
    \A s1, s2 \in DOMAIN slots :
        (/\ s1 # s2
         /\ slots[s1].status # "free"
         /\ slots[s2].status # "free"
         /\ slots[s1].expert_id # None
         /\ slots[s1].expert_id = slots[s2].expert_id)
        => slots[s1].slot_date # slots[s2].slot_date

-----------------------------------------------------------------------------
(* SlotMatcher.check_conflicts *)

CheckedDates == [i \in DOMAIN last.args[1] |-> slots[last.args[1][i]].slot_date]

CheckedDateSet == {CheckedDates[i] : i \in DOMAIN CheckedDates}

Entries(text) == {i \in DOMAIN Returned : Returned[i].text = text}

\* C25: check_conflicts returns the empty list exactly when the dates are all
\* distinct and no two of them are less than 2 days apart; it holds one
\* same-date entry exactly when a date occurs more than once; and it holds one
\* spacing entry for each pair of neighbours in date order that are less than
\* 2 days apart, naming the two dates in that order
ConflictsAreDuplicatesAndCloseNeighbours ==
    last.op = "check_conflicts" =>
        LET distinct == Cardinality(CheckedDateSet) = Len(CheckedDates)
            apart == \A a, b \in CheckedDateSet : a < b => b - a >= 2
            close == Entries("too close")
        IN  /\ (Returned = <<>>) <=> (distinct /\ apart)
            /\ Cardinality(Entries("same date")) = (IF distinct THEN 0 ELSE 1)
            /\ Cardinality(close) =
                  (Len(CheckedDates) - Cardinality(CheckedDateSet))
                  + Cardinality({d \in CheckedDateSet : d + 1 \in CheckedDateSet})
            /\ Entries("same date") \cup close = DOMAIN Returned
            /\ \A i \in close :
                  LET a == Returned[i].first[1].value
                      b == Returned[i].second[1].value
                  IN  /\ a \in CheckedDateSet /\ b \in CheckedDateSet
                      /\ a <= b /\ b - a < 2
                      /\ a = b => Count(CheckedDates, a) >= 2
            /\ \A i, j \in close :
                  i < j => Returned[i].first[1].value <= Returned[j].first[1].value

\* a list given out of date order with one pair of days next to each other
\* and a third day far from both
CloseNeighboursFoundAfterSorting ==
    /\ last.op = "check_conflicts"
    /\ Len(CheckedDates) = 3
    /\ CheckedDates[1] + 1 = CheckedDates[3]
    /\ CheckedDates[2] > CheckedDates[3] + 2
    /\ Len(Returned) = 1

-----------------------------------------------------------------------------
(* SlotMatcher.find_alternative_slots *)

Alternated == last.op = "find_alternative_slots"

Original == slots[last.slot]

\* the dates a call may take an alternative from
CandidateDates ==
    {d \in {Original.slot_date + 7 * w : w \in 1..4} :
        ~InLedger(d) /\ FreeInSnapshot(d) # {}}

\* C23: every slot find_alternative_slots returns is Free, on the weekday of
\* the original slot, 7, 14, 21 or 28 days after it, on a date in neither
\* ledger of the expert, and is not the original slot; the list has at most
\* count slots and their dates are distinct and strictly increasing
AlternativesAreLaterWeeks ==
    Alternated =>
        /\ Len(Returned) <= AskedCount
        /\ \A i \in DOMAIN Returned :
              LET slot == slots[Returned[i]]
              IN  /\ slot.status = "free"
                  /\ date_weekday(slot.slot_date) = date_weekday(Original.slot_date)
                  /\ slot.slot_date - Original.slot_date \in {7, 14, 21, 28}
                  /\ ~InLedger(slot.slot_date)
                  /\ Returned[i] # last.slot
        /\ \A i, j \in DOMAIN Returned :
              i # j => slots[Returned[i]].slot_date # slots[Returned[j]].slot_date
        /\ \A i, j \in DOMAIN Returned :
              i < j => slots[Returned[i]].slot_date < slots[Returned[j]].slot_date

\* a call that passed over next week's date, Free but held in the expert's
\* ledger, and returned a later week
SkippedBookedWeek ==
    /\ Alternated
    /\ Returned # <<>>
    /\ InLedger(Original.slot_date + 7)
    /\ FreeInSnapshot(Original.slot_date + 7) # {}

\* C24: on each date it uses, find_alternative_slots returns the first Free
\* slot at the original's start time if the date has one, and otherwise the
\* first Free slot of the date; it uses the earliest candidate dates, count of
\* them at most
AlternativesPreferTheSameTime ==
    Alternated =>
        /\ Len(Returned) = Min(AskedCount, Cardinality(CandidateDates))
        /\ ReturnedDates \subseteq CandidateDates
        /\ \A d \in CandidateDates \ ReturnedDates : \A r \in ReturnedDates : r < d
        /\ \A i \in DOMAIN Returned :
              LET free == FreeInSnapshot(slots[Returned[i]].slot_date)
                  same == {k \in free :
                              slots[Snapshot[k]].start_time = Original.start_time}
                  from == IF same # {} THEN same ELSE free
              IN  /\ free # {}
                  /\ Returned[i] = Snapshot[CHOOSE k \in from : \A x \in from : k <= x]

\* the original is not the first slot of its day, its time is Free in each of
\* the four weeks after it, and fewer alternatives than that are asked for:
\* each alternative is at the original's time
SameTimeInEveryWeek ==
    /\ Alternated
    /\ \E k \in DOMAIN Snapshot :
          /\ slots[Snapshot[k]].slot_date = Original.slot_date
          /\ slots[Snapshot[k]].start_time < Original.start_time
    /\ \A w \in 1..4 :
          /\ ~InLedger(Original.slot_date + 7 * w)
          /\ \E k \in FreeInSnapshot(Original.slot_date + 7 * w) :
                slots[Snapshot[k]].start_time = Original.start_time
    /\ AskedCount = 3
    /\ Len(Returned) = 3
    /\ \A i \in DOMAIN Returned : slots[Returned[i]].start_time = Original.start_time

-----------------------------------------------------------------------------
(* SlotMatcher.distribute_evenly *)

Distributed == last.op = "distribute_evenly" /\ last.ret = "returned"

\* C21: for a count of at least 1 the list distribute_evenly returns has at
\* most count slots, each Free, on a preferred weekday and on a date in
\* neither ledger of the expert, and the dates of two consecutive slots are
\* at least max(7, floor(weeksAhead * 7 / count)) days apart, which is 16 for
\* count 5 and 12 weeks
EvenlyDistributedSlots ==
    (Distributed /\ AskedCount >= 1) =>
        LET interval == IF (AskedWeeks * 7) \div AskedCount > 7
                        THEN (AskedWeeks * 7) \div AskedCount ELSE 7
        IN  /\ Len(Returned) <= AskedCount
            /\ \A i \in DOMAIN Returned :
                  LET slot == slots[Returned[i]]
                  IN  /\ slot.status = "free"
                      /\ Preferred(slot.slot_date)
                      /\ ~InLedger(slot.slot_date)
            /\ \A i \in DOMAIN Returned :
                  i > 1 => slots[Returned[i]].slot_date
                             - slots[Returned[i - 1]].slot_date >= interval
            /\ days_interval(12, 5) = 16

\* a call whose interval is longer than a week returned two slots and passed
\* over a Free slot on a preferred day between them
SpreadWiderThanAWeek ==
    /\ Distributed
    /\ AskedCount = 2
    /\ Len(Returned) = 2
    /\ (AskedWeeks * 7) \div AskedCount > 7
    /\ \E d \in (slots[Returned[1]].slot_date + 1)..(slots[Returned[2]].slot_date - 1) :
          Preferred(d) /\ ~InLedger(d) /\ FreeInSnapshot(d) # {}

\* C22: distribute_evenly makes at most weeksAhead * 7 passes through its
\* loop, and a call that has entered the loop comes to its end
DistributeEvenlyTerminates ==
    /\ [](run.pc = "loop" => run.attempts <= run.max_attempts)
    /\ [](run.pc = "returned" => run.attempts <= Max(0, last.args[3] * 7))
    /\ (run.pc = "loop") ~> (run.pc = "returned")

\* a call used every pass it was allowed and returned fewer slots than asked
AllAttemptsUsed ==
    /\ Distributed
    /\ run.max_attempts > 0
    /\ run.attempts = run.max_attempts
    /\ Len(Returned) < AskedCount

\* C26: find_slots_for_expert, distribute_evenly, find_alternative_slots and
\* check_conflicts end by returning a list, never by raising
AlgorithmsNeverRaise == last.ret # "raised"

-----------------------------------------------------------------------------
(* The SlotMatcher's snapshot *)

\* C27: the matcher keeps the list and the index it was built with whatever
\* is added to or removed from the Schedule afterwards: what it returns is
\* chosen among the slots of that list only, a slot added later never, a slot
\* removed later as before
SnapshotIsFixedAtConstruction ==
    /\ matcher = Some(SlotMatcher(SlotsAtConstruction))
    /\ Matched =>
          /\ \A i \in DOMAIN Returned :
                /\ \E k \in DOMAIN SlotsAtConstruction : Returned[i] = SlotsAtConstruction[k]
                /\ \A k \in DOMAIN SlotsAtConstruction :
                      (/\ slots[SlotsAtConstruction[k]].status = "free"
                       /\ slots[SlotsAtConstruction[k]].slot_date
                            = slots[Returned[i]].slot_date)
                      => Returned[i] <= SlotsAtConstruction[k]
          /\ (/\ AskedCount >= 1
              /\ Preferred(SlotDay)
              /\ \E k \in DOMAIN SlotsAtConstruction :
                    /\ slots[SlotsAtConstruction[k]].status = "free"
                    /\ slots[SlotsAtConstruction[k]].slot_date = SlotDay)
             => Returned # <<>>
          /\ (\A k \in DOMAIN SlotsAtConstruction :
                  slots[SlotsAtConstruction[k]].status # "free")
             => Returned = <<>>

\* the matcher returned a slot that the Schedule no longer holds, while the
\* Schedule holds a Free slot of that day that was added after the matcher
\* was built
RemovedSlotStillReturned ==
    /\ Matched
    /\ Returned # <<>>
    /\ ~Contains(schedule.slots, Returned[1])
    /\ \E s \in DOMAIN slots :
          /\ Contains(schedule.slots, s)
          /\ ~Contains(SlotsAtConstruction, s)
          /\ slots[s].status = "free"
          /\ slots[s].slot_date = slots[Returned[1]].slot_date


-----------------------------------------------------------------------------
(* The horizon of distribute_evenly *)

\* C31: every slot distribute_evenly(expert, count, weeksAhead) returns has a
\* date d with today <= d < today + weeksAhead * 7, the window that
\* find_slots_for_expert searches when started today
DistributedWithinHorizon ==
    Distributed =>
        \A i \in DOMAIN Returned :
            /\ last.args[4] <= slots[Returned[i]].slot_date
            /\ slots[Returned[i]].slot_date < last.args[4] + AskedWeeks * 7


\* C40: for a count of at least 1 check_conflicts applied to the list that
\* distribute_evenly returns gives an empty list: the list has no two slots on
\* one date and every two of its dates are at least 2 days apart
DistributedDraftIsConflictFree ==
    (Distributed /\ AskedCount >= 1) =>
        /\ check_conflicts(matcher[1], Returned) = <<>>
        /\ \A i, j \in DOMAIN Returned :
              i < j => slots[Returned[j]].slot_date - slots[Returned[i]].slot_date >= 2

\* a call returned three slots and check_conflicts finds nothing in them
ThreeDistributedWithoutConflict ==
    /\ Distributed
    /\ Len(Returned) = 3
    /\ check_conflicts(matcher[1], Returned) = <<>>


-----------------------------------------------------------------------------
(* The matcher and the state of slots and ledgers *)

MatcherOps ==
    {"find_slots_for_expert", "distribute_evenly", "find_alternative_slots",
     "check_conflicts"}

\* the ledgers of all the experts
Ledgers == [e \in ExpertIds |-> <<experts[e].confirmed_slots, experts[e].pending_slots>>]

ProposedSlotsAreFreeNow ==
    (last.op \in MatcherOps \ {"check_conflicts"}) =>
        \A i \in DOMAIN Returned :
            /\ Contains(schedule.slots, Returned[i])
            /\ slots[Returned[i]].status = "free"
            /\ slots[Returned[i]].expert_id = None

\* the first date's slot was taken by another expert after the matcher was
\* built, and the matcher proposed only the slot of the later date
ProposedAroundLaterBooking ==
    /\ last.op \in {"find_slots_for_expert", "distribute_evenly"}
    /\ Len(Returned) = 1
    /\ slots[Returned[1]].slot_date > SlotDay
    /\ ~InLedger(SlotDay)
    /\ \E s \in DOMAIN slots :
          /\ slots[s].slot_date = SlotDay
          /\ slots[s].status = "pending"
          /\ slots[s].expert_id # Some(last.args[1])


-----------------------------------------------------------------------------
(* Slots and ledgers under a disciplined caller *)

\* the dates on which the expert owns a slot of the status
OwnedDates(e, status) ==
    {slots[s].slot_date : s \in {x \in DOMAIN slots :
                                    /\ slots[x].status = status
                                    /\ slots[x].expert_id = Some(experts[e].expert_id)}}

ListedDates(ledger) == {ledger[i] : i \in DOMAIN ledger}

\* C36: when book_slot is called only for a date the expert has nothing on
\* and confirm_slot and release_slot only with the slot's owner, the dates of
\* an expert's pending ledger are the dates of the Pending slots the expert
\* owns, and the dates of the confirmed ledger those of the Confirmed slots
\* the expert owns
DisciplinedLedgersMatchSlots ==
    \A e \in ExpertIds :
        /\ ListedDates(experts[e].pending_slots) = OwnedDates(e, "pending")
        /\ ListedDates(experts[e].confirmed_slots) = OwnedDates(e, "confirmed")

\* an expert released a slot on a date on which the other expert holds a
\* Confirmed slot, and that other expert holds a Pending slot on another date
ConfirmedAndPendingAfterRelease ==
    /\ last.op = "release_slot"
    /\ \E e \in ExpertIds :
          /\ last.args = Some(e)
          /\ \E o \in ExpertIds \ {e} :
                /\ slots[last.slot].slot_date \in OwnedDates(o, "confirmed")
                /\ OwnedDates(o, "pending") # {}


-----------------------------------------------------------------------------
(* The dialog *)



\* the requests that run _confirm_and_save_schedule
ConfirmOps == {"handle_schedule_confirmation", "confirm_final"}

\* the request ran _confirm_and_save_schedule; its args are the user, the
\* saves it asked for and what save_schedule returned
RanConfirmAndSave(call) == call.op \in ConfirmOps /\ Len(call.args) = 3

\* the slots handed to _confirm_and_save_schedule by the request
SlotsToConfirm(call) ==
    IF call.op = "confirm_final" THEN SelectedSlots(call.args[1])
    ELSE DraftSlots(call.args[1])

\* C32: when save_schedule fails after the slots of a draft were confirmed
\* in memory, the request answers with the error message, the user's dialog
\* state is left as it was (it does not become completed), save_schedule was
\* asked once and nothing else was saved, and every slot the request turned
\* from Pending to Confirmed is Confirmed with its date in the expert's
\* confirmed ledger
FailedSaveIsReportedNotUndone ==
    [][(RanConfirmAndSave(last') /\ last'.args[3] = "False") =>
          LET user_id == last'.args[1]
              asked == SlotsToConfirm(last')
          IN  /\ last'.ret = "ERROR_GENERAL"
              /\ user_states' = user_states
              /\ last'.args[2] = <<"save_schedule">>
              /\ \A i \in DOMAIN asked :
                    slots[asked[i]].status = "pending" =>
                        /\ slots'[asked[i]].status = "confirmed"
                        /\ Contains(experts'[user_id].confirmed_slots,
                                    slots[asked[i]].slot_date)
      ]_vars

\* a yes to the draft whose save failed: the dialog still awaits the answer
\* while the slot of the draft is Confirmed and its date is in the ledger
ConfirmedInMemoryOnly ==
    /\ last.op = "handle_schedule_confirmation"
    /\ Len(last.args) = 3
    /\ last.args[3] = "False"
    /\ user_states[last.args[1]] = "confirming_schedule"
    /\ \E i \in DOMAIN DraftSlots(last.args[1]) :
          LET slot == slots[DraftSlots(last.args[1])[i]]
          IN  /\ slot.status = "confirmed"
              /\ Contains(experts[last.args[1]].confirmed_slots, slot.slot_date)


\* the parts that name a weekday
KnownDays == DOMAIN WEEKDAYS_SHORT \cup {WeekdayValueUpper[i] : i \in DOMAIN Weekday}

\* a text with no part, with a part of several characters that names no
\* weekday, or with no part that names one
FailsValidation(text) ==
    \/ text = <<>>
    \/ \E i \in DOMAIN text : Len(text[i]) > 1 /\ text[i] \notin KnownDays
    \/ \A i \in DOMAIN text : text[i] \notin KnownDays

\* C33: when the weekday text fails validation, set_expert_preferences
\* reports the failure, and neither it nor the dialog's handler of the text
\* changes anything: no expert is created, every expert keeps its preferred
\* weekdays and ledgers, and the user's dialog state, the sessions and the
\* slots are as before
FailedValidationTouchesNothing ==
    [][(/\ last'.op \in {"handle_days_input", "set_expert_preferences"}
        /\ FailsValidation(last'.args[2])) =>
          /\ last'.ret \in {"error_validation", "False"}
          /\ DOMAIN experts' = DOMAIN experts
          /\ UNCHANGED <<experts, user_states, session, slots, schedule, matcher>>
      ]_vars

\* a text whose first part is a weekday and whose second is none was refused
\* in a dialog whose expert already has preferred weekdays
RefusedPartlyValidText ==
    /\ last.op = "handle_days_input"
    /\ last.ret = "error_validation"
    /\ last.args[2] = <<"PN", "XX">>
    /\ user_states[last.args[1]] = "asking_days"
    /\ experts[last.args[1]].preferred_weekdays = <<"MONDAY">>
    /\ Stranger \notin DOMAIN experts


\* the slot records the user as its owner: the keyboard's add_selected_slot
\* writes the telegram id, Schedule.book_slot writes the expert_id
OwnedByUser(slot, user_id) ==
    \/ slot.expert_id = Some(user_id)
    \/ user_id \in DOMAIN experts /\ slot.expert_id = Some(experts[user_id].expert_id)

\* the dates of the slots that record the user as their owner
DatesOwnedByUser(user_id) ==
    {slots[s].slot_date : s \in {o \in DOMAIN slots : OwnedByUser(slots[o], user_id)}}

\* C37: in any interleaving of the dialog requests of several users, a slot
\* goes from Pending to Confirmed only in a confirm request of the user
\* recorded as the slot's owner, and a confirm request adds to the user's
\* confirmed ledger only dates of slots that the user owns
SlotConfirmedOnlyByOwner ==
    [][/\ \A s \in DOMAIN slots :
             (slots[s].status = "pending" /\ slots'[s].status = "confirmed") =>
                 /\ RanConfirmAndSave(last')
                 /\ OwnedByUser(slots[s], last'.args[1])
       /\ RanConfirmAndSave(last') =>
             LET user_id == last'.args[1]
             IN  \A i \in DOMAIN experts'[user_id].confirmed_slots :
                    LET d == experts'[user_id].confirmed_slots[i]
                    IN  \/ Contains(experts[user_id].confirmed_slots, d)
                        \/ d \in DatesOwnedByUser(user_id)
      ]_vars

\* C38: when a confirm-and-save request completes the dialog, every slot of
\* the user's draft is Confirmed and owned by that user, also after an
\* adjustment that released a flagged slot and found no alternative
CompletedDraftIsConfirmed ==
    [][(RanConfirmAndSave(last') /\ last'.ret = "SUCCESS") =>
          LET user_id == last'.args[1]
              draft == DraftSlots(user_id)
          IN  /\ user_states'[user_id] = "completed"
              /\ \A i \in DOMAIN draft :
                    /\ slots'[draft[i]].status = "confirmed"
                    /\ OwnedByUser(slots'[draft[i]], user_id)
      ]_vars

\* C39: when handle_cancel or handle_new_schedule discards a session, every
\* slot selected in it that is Pending for the user is Free afterwards
AbandonedSelectionsAreReleased ==
    [][last'.op \in {"handle_cancel", "handle_new_schedule"} =>
          LET user_id == last'.args[1]
              selected == SelectedSlots(user_id) \o DraftSlots(user_id)
          IN  \A i \in DOMAIN selected :
                 (/\ slots[selected[i]].status = "pending"
                  /\ OwnedByUser(slots[selected[i]], user_id)) =>
                     slots'[selected[i]].status = "free"
      ]_vars

=============================================================================
